---------------------------- MODULE Spec2Model ----------------------------
(***************************************************************************)
(* Geo-relevance selection of the vyapaar backend: the three selection     *)
(* cascades (random listings, listing banners, bottom banners), the        *)
(* location resolvers with their shared in-memory cache, the area          *)
(* classifier and the relevance scorer.                                    *)
(*                                                                         *)
(* Conventions of the translation                                          *)
(*  - a JavaScript scalar that may be null/undefined is a string or the    *)
(*    constant NULL; an object that may be null is a record or Null;       *)
(*    a number-or-string field (pincode) is Num(n), Str(s) or Null.        *)
(*  - coordinates lie on one meridian (lng = 0) and lat is measured in     *)
(*    kilometres of arc, so the haversine distance of two points is the    *)
(*    absolute difference of their lat.                                    *)
(*  - every external call takes its outcome as an argument: "OK" (status   *)
(*    OK with a result), "ZERO_RESULTS" (any other status or an empty      *)
(*    result) or "error" (network error or timeout: the call throws).      *)
(*  - a function with try/catch returns a record with a field threw; the   *)
(*    catch is the operator Catch applied to the body.                     *)
(***************************************************************************)
EXTENDS Integers, Sequences, FiniteSets, TLC

(* ------------------------------ bounds --------------------------------- *)
MaxPool == 3          \* candidates in the table
MaxArrayLen == 4      \* elements of an array given to the shuffle
MaxResultsBound == 2  \* largest maxResults a request asks for

(* --------------------------- JavaScript values ------------------------- *)
NULL == "null"
Null == [isNull |-> TRUE]
Num(n) == [num |-> n]
Str(s) == [str |-> s]

\* !x for a string-or-null scalar.
IsSet(s) == s # NULL /\ s # ""
\* !x for a number-or-string-or-null value: 0, "" and null are falsy.
IsTruthy(v) == v # Null /\ v # Num(0) /\ v # Str("")
\* `${v}` and v.toString().
toString(v) == IF "num" \in DOMAIN v THEN ToString(v.num) ELSE v.str

Min(a, b) == IF a <= b THEN a ELSE b
Max(a, b) == IF a >= b THEN a ELSE b
Abs(a) == IF a >= 0 THEN a ELSE 0 - a

\* Array.prototype.slice(0, n): a negative n counts from the end.
slice(array, n) ==
  IF n >= 0 THEN SubSeq(array, 1, Min(n, Len(array)))
  ELSE SubSeq(array, 1, Max(Len(array) + n, 0))
\* Array.prototype.slice(n).
sliceFrom(array, n) == SubSeq(array, Min(n, Len(array)) + 1, Len(array))

\* String.prototype.toLowerCase on the names of the model.
toLowerCase(s) ==
  CASE s \in {"Pune", "PUNE", "pune"} -> "pune"
    [] s \in {"Haveli", "haveli"} -> "haveli"
    [] s \in {"Pune City", "pune city"} -> "pune city"
    [] s \in {"Maharashtra", "MAHARASHTRA", "maharashtra"} -> "maharashtra"
    [] s \in {"Raigad", "raigad"} -> "raigad"
    [] s \in {"Khalapur", "khalapur"} -> "khalapur"
    [] s \in {"Khopoli", "khopoli"} -> "khopoli"
    [] s \in {"Mumbai", "MUMBAI", "mumbai"} -> "mumbai"
    [] s \in {"Karnataka", "karnataka"} -> "karnataka"
    [] s \in {"Bengaluru", "bengaluru"} -> "bengaluru"
    [] s \in {"Bengaluru Urban", "bengaluru urban"} -> "bengaluru urban"
    [] OTHER -> s

(* ------------------------------ locations ------------------------------ *)
Coords(lat, lng) == [lat |-> lat, lng |-> lng]

Location(coordinates, district, subDistrict, city, state) ==
  [coordinates |-> coordinates, district |-> district,
   subDistrict |-> subDistrict, city |-> city, state |-> state]

\* Haversine distance in km, on the meridian of the model.
calculateDistance(lat1, lng1, lat2, lng2) == Abs(lat2 - lat1)

AreaRadiusKm == 55

\* Variant: only the requester's side is lowered before the comparison.
isBannerInUserArea_userSideLowered(userLocation, bannerLocation) ==
  IF userLocation = Null \/ bannerLocation = Null THEN FALSE
  ELSE IF IsSet(userLocation.district) /\ IsSet(bannerLocation.district)
          /\ toLowerCase(userLocation.district) = bannerLocation.district
       THEN TRUE
  ELSE IF IsSet(userLocation.city) /\ IsSet(bannerLocation.city)
          /\ toLowerCase(userLocation.city) = bannerLocation.city THEN TRUE
  ELSE IF userLocation.coordinates # Null /\ bannerLocation.coordinates # Null
          /\ IsSet(userLocation.state) /\ IsSet(bannerLocation.state)
          /\ toLowerCase(userLocation.state) = toLowerCase(bannerLocation.state)
       THEN calculateDistance(userLocation.coordinates.lat,
                              userLocation.coordinates.lng,
                              bannerLocation.coordinates.lat,
                              bannerLocation.coordinates.lng) <= AreaRadiusKm
  ELSE FALSE

\* Variant: the comparisons without toLowerCase.
isBannerInUserArea_caseSensitive(userLocation, bannerLocation) ==
  IF userLocation = Null \/ bannerLocation = Null THEN FALSE
  ELSE IF IsSet(userLocation.district) /\ IsSet(bannerLocation.district)
          /\ userLocation.district = bannerLocation.district THEN TRUE
  ELSE IF IsSet(userLocation.city) /\ IsSet(bannerLocation.city)
          /\ userLocation.city = bannerLocation.city THEN TRUE
  ELSE IF userLocation.coordinates # Null /\ bannerLocation.coordinates # Null
          /\ IsSet(userLocation.state) /\ IsSet(bannerLocation.state)
          /\ userLocation.state = bannerLocation.state
       THEN calculateDistance(userLocation.coordinates.lat,
                              userLocation.coordinates.lng,
                              bannerLocation.coordinates.lat,
                              bannerLocation.coordinates.lng) <= AreaRadiusKm
  ELSE FALSE

\* Variant: the proximity check with the 15 km its comment speaks of.
isBannerInUserArea_within15km(userLocation, bannerLocation) ==
  IF userLocation = Null \/ bannerLocation = Null THEN FALSE
  ELSE IF IsSet(userLocation.district) /\ IsSet(bannerLocation.district)
          /\ toLowerCase(userLocation.district)
               = toLowerCase(bannerLocation.district) THEN TRUE
  ELSE IF IsSet(userLocation.city) /\ IsSet(bannerLocation.city)
          /\ toLowerCase(userLocation.city)
               = toLowerCase(bannerLocation.city) THEN TRUE
  ELSE IF userLocation.coordinates # Null /\ bannerLocation.coordinates # Null
          /\ IsSet(userLocation.state) /\ IsSet(bannerLocation.state)
          /\ toLowerCase(userLocation.state) = toLowerCase(bannerLocation.state)
       THEN calculateDistance(userLocation.coordinates.lat,
                              userLocation.coordinates.lng,
                              bannerLocation.coordinates.lat,
                              bannerLocation.coordinates.lng) <= 15
  ELSE FALSE

\* isBannerInUserArea (both copies) and isListingInUserArea: the same text.
isBannerInUserArea(userLocation, bannerLocation) ==
  IF userLocation = Null \/ bannerLocation = Null THEN FALSE
  ELSE IF IsSet(userLocation.district) /\ IsSet(bannerLocation.district)
          /\ toLowerCase(userLocation.district)
               = toLowerCase(bannerLocation.district) THEN TRUE
  ELSE IF IsSet(userLocation.city) /\ IsSet(bannerLocation.city)
          /\ toLowerCase(userLocation.city)
               = toLowerCase(bannerLocation.city) THEN TRUE
  ELSE IF userLocation.coordinates # Null /\ bannerLocation.coordinates # Null
          /\ IsSet(userLocation.state) /\ IsSet(bannerLocation.state)
          /\ toLowerCase(userLocation.state) = toLowerCase(bannerLocation.state)
       THEN calculateDistance(userLocation.coordinates.lat,
                              userLocation.coordinates.lng,
                              bannerLocation.coordinates.lat,
                              bannerLocation.coordinates.lng) <= AreaRadiusKm
  ELSE FALSE

isListingInUserArea(userLocation, listingLocation) ==
  isBannerInUserArea(userLocation, listingLocation)


(* ------------------------------- scoring ------------------------------- *)
bonusWeights ==
  [exactCityMatch |-> 50, subDistrictMatch |-> 30, proximityBonus |-> 20,
   serviceRadiusBonus |-> 10]

\* The distance the scorers store on the candidate (banner.distance = ...).
scoredDistance(userLocation, bannerLocation) ==
  calculateDistance(userLocation.coordinates.lat, userLocation.coordinates.lng,
                    bannerLocation.coordinates.lat, bannerLocation.coordinates.lng)

cityBonus(userLocation, bannerLocation) ==
  IF IsSet(userLocation.city) /\ IsSet(bannerLocation.city)
     /\ toLowerCase(userLocation.city) = toLowerCase(bannerLocation.city)
  THEN bonusWeights.exactCityMatch ELSE 0

\* Variant: the sub-districts compared as written.
subDistrictBonus_caseSensitive(userLocation, bannerLocation) ==
  IF IsSet(userLocation.subDistrict) /\ IsSet(bannerLocation.subDistrict)
     /\ userLocation.subDistrict = bannerLocation.subDistrict
  THEN bonusWeights.subDistrictMatch ELSE 0

subDistrictBonus(userLocation, bannerLocation) ==
  IF IsSet(userLocation.subDistrict) /\ IsSet(bannerLocation.subDistrict)
     /\ toLowerCase(userLocation.subDistrict)
          = toLowerCase(bannerLocation.subDistrict)
  THEN bonusWeights.subDistrictMatch ELSE 0

\* Variant: the tiers of the bonus in the opposite order.
proximityBonus_reversed(distance) ==
  IF distance <= 5 THEN 0
  ELSE IF distance <= 10 THEN (bonusWeights.proximityBonus * 6) \div 10
  ELSE IF distance <= 20 THEN (bonusWeights.proximityBonus * 8) \div 10
  ELSE bonusWeights.proximityBonus

\* proximityBonus, proximityBonus * 0.8, proximityBonus * 0.6, nothing.
proximityBonus(distance) ==
  IF distance <= 5 THEN bonusWeights.proximityBonus
  ELSE IF distance <= 10 THEN (bonusWeights.proximityBonus * 8) \div 10
  ELSE IF distance <= 20 THEN (bonusWeights.proximityBonus * 6) \div 10
  ELSE 0

calculateBannerLocationScore(userLocation, bannerLocation, banner) ==
  IF bannerLocation = Null THEN 0
  ELSE 100 + cityBonus(userLocation, bannerLocation)
           + subDistrictBonus(userLocation, bannerLocation)
           + (IF userLocation.coordinates # Null
                 /\ bannerLocation.coordinates # Null
              THEN proximityBonus(scoredDistance(userLocation, bannerLocation))
              ELSE 0)

\* serviceRadius is an Int?; 0 stands for null as well (both are falsy).
calculateListingLocationScore(userLocation, listingLocation, listing) ==
  IF listingLocation = Null THEN 0
  ELSE 100 + cityBonus(userLocation, listingLocation)
           + subDistrictBonus(userLocation, listingLocation)
           + (IF userLocation.coordinates # Null
                 /\ listingLocation.coordinates # Null
              THEN LET distance == scoredDistance(userLocation, listingLocation)
                   IN proximityBonus(distance)
                      + (IF listing.serviceRadius # 0
                            /\ distance <= listing.serviceRadius
                         THEN bonusWeights.serviceRadiusBonus ELSE 0)
              ELSE 0)

(* ------------------------- arrays: spread, sort, shuffle --------------- *)
\* { ...banner, f: v, ... }
Spread(banner, extra) ==
  [f \in DOMAIN banner \cup DOMAIN extra |->
     IF f \in DOMAIN extra THEN extra[f] ELSE banner[f]]

\* Array.prototype.sort is stable: an element goes behind its equals.
RECURSIVE InsertByScore(_, _)
InsertByScore(sorted, x) ==
  IF sorted = <<>> THEN <<x>>
  ELSE IF Head(sorted).locationScore >= x.locationScore
       THEN <<Head(sorted)>> \o InsertByScore(Tail(sorted), x)
       ELSE <<x>> \o sorted

RECURSIVE sortByScoreDesc(_)
sortByScoreDesc(array) ==
  IF array = <<>> THEN <<>>
  ELSE InsertByScore(sortByScoreDesc(SubSeq(array, 1, Len(array) - 1)),
                     array[Len(array)])

RECURSIVE InsertByDistance(_, _)
InsertByDistance(sorted, x) ==
  IF sorted = <<>> THEN <<x>>
  ELSE IF Head(sorted).distance <= x.distance
       THEN <<Head(sorted)>> \o InsertByDistance(Tail(sorted), x)
       ELSE <<x>> \o sorted

RECURSIVE sortByDistanceAsc(_)
sortByDistanceAsc(array) ==
  IF array = <<>> THEN <<>>
  ELSE InsertByDistance(sortByDistanceAsc(SubSeq(array, 1, Len(array) - 1)),
                        array[Len(array)])

\* The values Math.floor(Math.random() * (i + 1)) can take, for each index
\* i = length - 1 down to 1 of the Fisher-Yates loop (0-based, as in the code).
RandomChoices(n) ==
  {rnd \in [1 .. (n - 1) -> 0 .. (n - 1)] : \A i \in 1 .. (n - 1) : rnd[i] <= i}

\* Variant: an assignment in place of the exchange.
Swap_overwrite(array, i, j) == [array EXCEPT ![i] = array[j]]

Swap(array, i, j) ==
  [k \in 1 .. Len(array) |->
     IF k = i THEN array[j] ELSE IF k = j THEN array[i] ELSE array[k]]

RECURSIVE FisherYates(_, _, _)
FisherYates(shuffled, rnd, i) ==
  IF i <= 0 THEN shuffled
  ELSE FisherYates(Swap(shuffled, i + 1, rnd[i] + 1), rnd, i - 1)

shuffleArray(array, rnd) == FisherYates(array, rnd, Len(array) - 1)

\* Variant: each of the count elements is drawn from the whole array.
getRandomListings_withReplacement(listings, count, rnd) ==
  IF Len(listings) <= count THEN listings
  ELSE [k \in 1 .. Max(count, 0) |-> listings[rnd[k] + 1]]

getRandomListings(listings, count, rnd) ==
  IF Len(listings) <= count THEN listings
  ELSE slice(shuffleArray(listings, rnd), count)

(* ------------------------- the geocoding providers --------------------- *)
\* What the providers answer when they answer: results[0] of the Google
\* geocoder for an address or a latlng, and the first hit of Nominatim.
Component(type, name) == [types |-> {type, "political"}, long_name |-> name]

GeocodeResult(lat, level2, level3, locality, level1) ==
  [geometry |-> [location |-> Coords(lat, 0)],
   address_components |->
     <<Component("locality", locality),
       Component("administrative_area_level_3", level3),
       Component("administrative_area_level_2", level2),
       Component("administrative_area_level_1", level1)>>]

\* address = a postal code, components = country:IN.
GeocodePincode(address) ==
  CASE address = "411001" ->
         GeocodeResult(0, "Pune", "Haveli", "Pune", "Maharashtra")
    [] address = "410203" ->
         GeocodeResult(40, "Raigad", "Khalapur", "Khopoli", "MAHARASHTRA")
    [] address = "400001" ->
         GeocodeResult(120, "Mumbai", "", "Mumbai", "Maharashtra")
    [] OTHER -> Null

\* latlng = "lat,lng".
GeocodeLatLng(lat, lng) ==
  CASE lat \in 0 .. 20 ->
         GeocodeResult(lat, "PUNE", "Pune City", "Pune", "Maharashtra")
    [] OTHER -> Null

\* address = "<city>, India".
GeocodeCity(address) ==
  CASE address = "Bengaluru, India" ->
         GeocodeResult(735, "Bengaluru Urban", "", "Bengaluru", "Karnataka")
    [] OTHER -> Null

\* Nominatim search by city: lat and lon come as strings, parsed by parseFloat.
NominatimCity(city) ==
  CASE city = "Bengaluru" -> [lat |-> 736, lon |-> 0, display_name |-> "Bengaluru"]
    [] OTHER -> Null

GeocodeOutcomes == {"OK", "ZERO_RESULTS", "error"}
RedirectOutcomes == {"OK", "error"}

\* One outcome for each kind of external call a resolution can make.
Oracles ==
  [redirect : RedirectOutcomes, latlng : GeocodeOutcomes,
   pincode : GeocodeOutcomes, city : GeocodeOutcomes, osm : GeocodeOutcomes]

extractFromAddressComponents(addressComponents, targetType) ==
  LET found == {i \in DOMAIN addressComponents :
                  targetType \in addressComponents[i].types}
  IN IF found = {} THEN NULL
     ELSE LET component ==
                addressComponents[CHOOSE i \in found : \A j \in found : i <= j]
          IN IF component.long_name = "" THEN NULL ELSE component.long_name

(* ----------------------- results, exceptions, cache -------------------- *)
Return(loc, cache) == [loc |-> loc, cache |-> cache, threw |-> FALSE]
Throw(cache) == [loc |-> Null, cache |-> cache, threw |-> TRUE]
\* try { body } catch (error) { return null; }
Catch(r) == IF r.threw THEN Return(Null, r.cache) ELSE r

\* Map.prototype.get / set / clear of locationCache.
cacheGet(cache, key) == IF key \in DOMAIN cache THEN cache[key] ELSE Null
\* Variant: set that stores nothing.
cacheSet_dropped(cache, key, value) == cache

cacheSet(cache, key, value) ==
  [k \in DOMAIN cache \cup {key} |-> IF k = key THEN value ELSE cache[k]]
EmptyCache == [k \in {} |-> Null]

(* ------------------------------ map URLs ------------------------------- *)
\* A URL is described by what the extraction reads of it:
\*   short       it contains "goo.gl";
\*   responseUrl the URL a HEAD request ends at (Null: none reported);
\*   at          <<>> without "@", else the parseFloat values of the
\*               comma-separated parts that follow the first "@";
\*   wellFormed  new URL(url) does not throw;
\*   q           <<>> without a (non-empty) q parameter, else the parseFloat
\*               values of its comma-separated parts;
\*   place       <<>> when /!3d([\d.-]+)!4d([\d.-]+)/ does not match, else
\*               the parseFloat values of the two groups.
\* A parseFloat value is Value(x) or NaNValue.
Value(x) == [value |-> x]
NaNValue == [nan |-> TRUE]
isNaN(v) == v = NaNValue

Url(short, responseUrl, at, wellFormed, q, place) ==
  [short |-> short, responseUrl |-> responseUrl, at |-> at,
   wellFormed |-> wellFormed, q |-> q, place |-> place]

\* response.request?.res?.responseUrl || response.headers?.location || url
resolveShortUrl(url, outcome) ==
  IF outcome = "error" THEN url
  ELSE IF url.responseUrl # Null THEN url.responseUrl ELSE url

\* The three extraction methods, on the URL left by the short-URL step.
extractCoordsFromResolved(url) ==
  IF url.at # <<>> /\ Len(url.at) >= 2
     /\ ~isNaN(url.at[1]) /\ ~isNaN(url.at[2])
  THEN Coords(url.at[1].value, url.at[2].value)
  ELSE IF ~url.wellFormed THEN Null          \* new URL throws, caught
  ELSE IF url.q # <<>> /\ Len(url.q) = 2
          /\ ~isNaN(url.q[1]) /\ ~isNaN(url.q[2])
  THEN Coords(url.q[1].value, url.q[2].value)
  ELSE IF url.place # <<>>
          /\ ~isNaN(url.place[1]) /\ ~isNaN(url.place[2])
  THEN Coords(url.place[1].value, url.place[2].value)
  ELSE Null

extractCoordsFromUrl(url, outcome) ==
  extractCoordsFromResolved(
    IF url.short THEN resolveShortUrl(url, outcome) ELSE url)

(* ------------------------------ resolvers ------------------------------ *)
LocationOf(coordinates, result) ==
  Location(coordinates,
           extractFromAddressComponents(result.address_components,
                                        "administrative_area_level_2"),
           extractFromAddressComponents(result.address_components,
                                        "administrative_area_level_3"),
           extractFromAddressComponents(result.address_components, "locality"),
           extractFromAddressComponents(result.address_components,
                                        "administrative_area_level_1"))

\* Has its own try/catch and touches no cache: the result is the location.
getLocationDataFromCoordinates(lat, lng, outcome) ==
  IF outcome = "error" THEN Null
  ELSE LET result == IF outcome = "OK" THEN GeocodeLatLng(lat, lng) ELSE Null
       IN IF result = Null THEN Null
          ELSE LocationOf(Coords(lat, lng), result)

\* Variant: one cache entry for all postal codes.
getEnhancedLocationDataBody_oneKey(cache, pincode, outcome) ==
  LET cacheKey == "enhanced_location_"
      cachedLocation == cacheGet(cache, cacheKey)
  IN IF cachedLocation # Null THEN Return(cachedLocation, cache)
     ELSE IF outcome = "error" THEN Throw(cache)
     ELSE LET result == IF outcome = "OK"
                        THEN GeocodePincode(toString(pincode)) ELSE Null
          IN IF result = Null THEN Return(Null, cache)
             ELSE LET locationData ==
                        LocationOf(result.geometry.location, result)
                  IN Return(locationData,
                            cacheSet(cache, cacheKey, locationData))

getEnhancedLocationDataBody(cache, pincode, outcome) ==
  LET cacheKey == "enhanced_location_" \o toString(pincode)
      cachedLocation == cacheGet(cache, cacheKey)
  IN IF cachedLocation # Null THEN Return(cachedLocation, cache)
     ELSE IF outcome = "error" THEN Throw(cache)
     ELSE LET result == IF outcome = "OK"
                        THEN GeocodePincode(toString(pincode)) ELSE Null
          IN IF result = Null THEN Return(Null, cache)
             ELSE LET locationData ==
                        LocationOf(result.geometry.location, result)
                  IN Return(locationData,
                            cacheSet(cache, cacheKey, locationData))

\* Variant: the body without its try/catch.
getEnhancedLocationData_nocatch(cache, pincode, outcome) ==
  getEnhancedLocationDataBody(cache, pincode, outcome)

\* The copies in index.js and in upload.js are the same text.
getEnhancedLocationData(cache, pincode, outcome) ==
  Catch(getEnhancedLocationDataBody(cache, pincode, outcome))

\* `${cityName}` of a string column or of the City relation object.
cityText(cityName) ==
  IF "str" \in DOMAIN cityName THEN cityName.str ELSE "[object Object]"

getLocationDataFromCityBody(cache, cityName, oracle) ==
  LET cacheKey == "city_location_" \o cityText(cityName)
      cachedLocation == cacheGet(cache, cacheKey)
  IN IF cachedLocation # Null THEN Return(cachedLocation, cache)
     ELSE IF oracle.city = "error" THEN Throw(cache)
     ELSE LET result == IF oracle.city = "OK"
                        THEN GeocodeCity(cityText(cityName) \o ", India")
                        ELSE Null
          IN IF result # Null
             THEN LET locationData ==
                        LocationOf(result.geometry.location, result)
                  IN Return(locationData,
                            cacheSet(cache, cacheKey, locationData))
             ELSE IF oracle.osm = "error" THEN Throw(cache)
             ELSE LET hit == IF oracle.osm = "OK"
                             THEN NominatimCity(cityText(cityName)) ELSE Null
                  IN IF hit = Null THEN Return(Null, cache)
                     ELSE LET locationData ==
                                Location(Coords(hit.lat, hit.lon), NULL, NULL,
                                         hit.display_name, NULL)
                              detailedData ==
                                getLocationDataFromCoordinates(
                                  hit.lat, hit.lon, oracle.latlng)
                              finalLocationData ==
                                IF detailedData # Null THEN detailedData
                                ELSE locationData
                          IN Return(finalLocationData,
                                    cacheSet(cache, cacheKey,
                                             finalLocationData))

getLocationDataFromCity(cache, cityName, oracle) ==
  Catch(getLocationDataFromCityBody(cache, cityName, oracle))

IsGlobal(banner) == banner.pincode = Num(0) \/ banner.pincode = Str("000000")

\* Variant: the coordinates of the link kept when the reverse geocoding
\* gives nothing.
fromLocationUrl_coordinatesKept(banner, oracle) ==
  IF banner.locationUrl = Null THEN Null
  ELSE LET coordinates ==
             extractCoordsFromUrl(banner.locationUrl, oracle.redirect)
           detailed ==
             getLocationDataFromCoordinates(coordinates.lat, coordinates.lng,
                                            oracle.latlng)
       IN IF coordinates = Null THEN Null
          ELSE IF detailed # Null THEN detailed
          ELSE Location(coordinates, NULL, NULL, NULL, NULL)

\* Priority 1 of the three per-candidate resolvers: the map URL.
fromLocationUrl(banner, oracle) ==
  IF banner.locationUrl = Null THEN Null
  ELSE LET coordinates ==
             extractCoordsFromUrl(banner.locationUrl, oracle.redirect)
       IN IF coordinates = Null THEN Null
          ELSE getLocationDataFromCoordinates(coordinates.lat, coordinates.lng,
                                              oracle.latlng)

\* Variant: a postal code that resolves overrides the map URL.
fromPincode_overriding(cache, locationData, banner, oracle) ==
  IF IsTruthy(banner.pincode)
  THEN LET r == getEnhancedLocationData(cache, banner.pincode, oracle.pincode)
       IN IF r.loc # Null THEN r ELSE Return(locationData, r.cache)
  ELSE Return(locationData, cache)

\* Priority 2: the postal code, when priority 1 gave nothing.
fromPincode(cache, locationData, banner, oracle) ==
  IF locationData = Null /\ IsTruthy(banner.pincode)
  THEN getEnhancedLocationData(cache, banner.pincode, oracle.pincode)
  ELSE Return(locationData, cache)

\* Priorities 3 and 4 of index.js: the city, then the city relation's name.
fromCity(r, banner, oracle) ==
  LET r3 == IF r.loc = Null /\ banner.city # Null /\ banner.city # Str("")
            THEN getLocationDataFromCity(r.cache, banner.city, oracle)
            ELSE r
  IN IF r3.loc = Null /\ banner.city # Null /\ "name" \in DOMAIN banner.city
        /\ IsSet(banner.city.name)
     THEN getLocationDataFromCity(r3.cache, Str(banner.city.name), oracle)
     ELSE r3

\* Variant: the result is stored whether or not there is one.
storeLocation_always(r, cacheKey) ==
  Return(r.loc, cacheSet(r.cache, cacheKey, r.loc))

storeLocation(r, cacheKey) ==
  IF r.loc # Null THEN Return(r.loc, cacheSet(r.cache, cacheKey, r.loc)) ELSE r

\* upload.js: the resolver of the bottom banners.
getBottomBannerLocationData(cache, banner, oracle) ==
  Catch(
    IF IsGlobal(banner) THEN Return(Null, cache)
    ELSE LET cacheKey == "bottom_banner_location_" \o ToString(banner.id)
             cachedLocation == cacheGet(cache, cacheKey)
         IN IF cachedLocation # Null THEN Return(cachedLocation, cache)
            ELSE storeLocation(
                   fromPincode(cache, fromLocationUrl(banner, oracle),
                               banner, oracle),
                   cacheKey))

\* index.js: the resolver of the listing banners.
getBannerLocationData(cache, banner, oracle) ==
  Catch(
    LET cacheKey == "banner_location_" \o ToString(banner.id)
        cachedLocation == cacheGet(cache, cacheKey)
    IN IF cachedLocation # Null THEN Return(cachedLocation, cache)
       ELSE storeLocation(
              fromCity(fromPincode(cache, fromLocationUrl(banner, oracle),
                                   banner, oracle),
                       banner, oracle),
              cacheKey))

\* index.js: the resolver of the listings.
getListingLocationData(cache, listing, oracle) ==
  Catch(
    LET cacheKey == "listing_location_" \o ToString(listing.id)
        cachedLocation == cacheGet(cache, cacheKey)
    IN IF cachedLocation # Null THEN Return(cachedLocation, cache)
       ELSE storeLocation(
              fromCity(fromPincode(cache, fromLocationUrl(listing, oracle),
                                   listing, oracle),
                       listing, oracle),
              cacheKey))

(* ------------------------------ candidates ----------------------------- *)
\* A row of Listing or BottomBanner, by the fields the cascades read.
Candidate(id, locationUrl, pincode, city, serviceRadius) ==
  [id |-> id, locationUrl |-> locationUrl, pincode |-> pincode,
   city |-> city, serviceRadius |-> serviceRadius]

\* https://www.google.com/maps/place/.../@4,0,17z
LongUrl == Url(FALSE, Null, <<Value(4), Value(0), Value(17)>>, TRUE, <<>>, <<>>)
\* https://maps.app.goo.gl/..., redirecting to LongUrl
ShortUrl == Url(TRUE, LongUrl, <<>>, TRUE, <<>>, <<>>)

\* The rows a table can hold in this model. pincode is an Int? column: the
\* global sentinel of a stored row is the number 0 (rows 2 and 3).
Catalog ==
  <<Candidate(1, Null, Null, Null, 0),
    Candidate(2, Null, Num(0), Null, 0),
    Candidate(3, Null, Num(0), Null, 0),
    Candidate(4, Null, Num(411001), Null, 0),
    Candidate(5, Null, Num(410203), Null, 50),
    Candidate(6, Null, Num(400001), Null, 0),
    Candidate(7, ShortUrl, Null, Null, 0),
    Candidate(8, Null, Null, [name |-> "Bengaluru"], 0)>>

\* findMany(... orderBy: { createdAt: "desc" }): ids grow with creation time.
RECURSIVE RowsOf(_)
RowsOf(ids) ==
  IF ids = {} THEN <<>>
  ELSE LET newest == CHOOSE i \in ids : \A j \in ids : j <= i
       IN <<Catalog[newest]>> \o RowsOf(ids \ {newest})

Tables ==
  {RowsOf(ids) : ids \in {S \in SUBSET DOMAIN Catalog : Cardinality(S) <= MaxPool}}

Cascades == {"listings", "banners", "bottomBanners"}

\* getAllApprovedListings and getAllEligibleBanners read prisma.listing,
\* getAllEligibleBottomBanners reads prisma.bottomBanner.
TableOf(c) == IF c = "bottomBanners" THEN "BottomBanner" ELSE "Listing"

\* The postal codes a requester sends: none, an empty one, one of Pune.
UserPincodes == {Null, Str(""), Str("411001")}

\* The outcomes that matter for resolving one candidate.
OraclesFor(banner) ==
  [redirect : IF banner.locationUrl # Null /\ banner.locationUrl.short
              THEN RedirectOutcomes ELSE {"OK"},
   latlng : IF banner.locationUrl # Null \/ banner.city # Null
            THEN GeocodeOutcomes ELSE {"OK"},
   pincode : IF IsTruthy(banner.pincode) THEN GeocodeOutcomes ELSE {"OK"},
   city : IF banner.city # Null THEN GeocodeOutcomes ELSE {"OK"},
   osm : IF banner.city # Null THEN GeocodeOutcomes ELSE {"OK"}]

(* -------------------------------- state -------------------------------- *)
VARIABLES
  fn,               \* the call of a pure function under study, or NoCall
  table,            \* the table the rows are of: "Listing" or "BottomBanner"
  store,            \* the rows of that table, newest first
  locationCache,    \* the Map exported by index.js
  pc,               \* "idle", "classify", "done", "threw"
  cascade,          \* which of the three functions runs
  userPincode, maxResults,
  allBanners,       \* allBanners / allListings
  userLocation,
  idx,              \* position of the for-of loop in allBanners
  bannerLocations,  \* what the resolver returned for each row so far
  areaBanners, nearbyBanners, globalBanners, fallbackBanners,
  output            \* the array the function returns

vars ==
  <<fn, table, store, locationCache, pc, cascade, userPincode, maxResults, allBanners,
    userLocation, idx, bannerLocations, areaBanners, nearbyBanners,
    globalBanners, fallbackBanners, output>>

locals ==
  <<cascade, userPincode, maxResults, allBanners, userLocation, idx,
    bannerLocations, areaBanners, nearbyBanners, globalBanners,
    fallbackBanners, output>>

buckets == <<areaBanners, nearbyBanners, globalBanners, fallbackBanners>>

NoRequest ==
  /\ cascade = "none" /\ userPincode = Null /\ maxResults = 0
  /\ allBanners = <<>> /\ userLocation = Null /\ idx = 0
  /\ bannerLocations = <<>> /\ areaBanners = <<>> /\ nearbyBanners = <<>>
  /\ globalBanners = <<>> /\ fallbackBanners = <<>> /\ output = <<>>

NoCall == [op |-> "none"]

Init ==
  /\ fn = NoCall
  /\ table \in {"Listing", "BottomBanner"}
  /\ store \in Tables
  /\ locationCache = EmptyCache
  /\ pc = "idle"
  /\ NoRequest

(* ------------------------ classification of one row -------------------- *)
NearbyRadiusKm == 55

Buckets(area, nearby, global, fallback) ==
  [area |-> area, nearby |-> nearby, global |-> global, fallback |-> fallback]

BothHaveCoordinates(userLoc, bannerLocation) ==
  userLoc.coordinates # Null /\ bannerLocation.coordinates # Null

SameState(userLoc, bannerLocation) ==
  /\ IsSet(userLoc.state) /\ IsSet(bannerLocation.state)
  /\ toLowerCase(userLoc.state) = toLowerCase(bannerLocation.state)

\* { ...banner, locationScore: score }, after the scorer has set
\* banner.distance when both sides have coordinates.
ScoredCopy(userLoc, bannerLocation, banner, score) ==
  IF BothHaveCoordinates(userLoc, bannerLocation)
  THEN Spread(banner, [distance |-> scoredDistance(userLoc, bannerLocation),
                       locationScore |-> score])
  ELSE Spread(banner, [locationScore |-> score])

\* Variant: a bottom banner without hints is dropped when it has no
\* location.
bottomBannerBuckets_hintlessDropped(b, userLoc, banner, bannerLocation) ==
  IF IsGlobal(banner)
  THEN [b EXCEPT !.global = Append(@, Spread(banner, [locationScore |-> 100]))]
  ELSE IF bannerLocation = Null
  THEN b
  ELSE IF isBannerInUserArea(userLoc, bannerLocation)
  THEN [b EXCEPT !.area =
                   Append(@, ScoredCopy(userLoc, bannerLocation, banner,
                                        calculateBannerLocationScore(
                                          userLoc, bannerLocation, banner)))]
  ELSE IF BothHaveCoordinates(userLoc, bannerLocation)
          /\ SameState(userLoc, bannerLocation)
  THEN LET distance == scoredDistance(userLoc, bannerLocation)
       IN IF distance <= NearbyRadiusKm
          THEN [b EXCEPT !.nearby =
                           Append(@, Spread(banner, [distance |-> distance]))]
          ELSE b
  ELSE IF banner.locationUrl = Null /\ ~IsTruthy(banner.pincode)
  THEN [b EXCEPT !.fallback = Append(@, Spread(banner, [locationScore |-> 25]))]
  ELSE b

\* upload.js: the body of the for-of loop of getFilteredBottomBanners, after
\* the row's location has been looked up.
bottomBannerBuckets(b, userLoc, banner, bannerLocation) ==
  IF IsGlobal(banner)
  THEN [b EXCEPT !.global = Append(@, Spread(banner, [locationScore |-> 100]))]
  ELSE IF bannerLocation = Null
  THEN IF banner.locationUrl = Null /\ ~IsTruthy(banner.pincode)
       THEN [b EXCEPT !.fallback =
                        Append(@, Spread(banner, [locationScore |-> 50]))]
       ELSE b
  ELSE IF isBannerInUserArea(userLoc, bannerLocation)
  THEN [b EXCEPT !.area =
                   Append(@, ScoredCopy(userLoc, bannerLocation, banner,
                                        calculateBannerLocationScore(
                                          userLoc, bannerLocation, banner)))]
  ELSE IF BothHaveCoordinates(userLoc, bannerLocation)
          /\ SameState(userLoc, bannerLocation)
  THEN LET distance == scoredDistance(userLoc, bannerLocation)
       IN IF distance <= NearbyRadiusKm
          THEN [b EXCEPT !.nearby =
                           Append(@, Spread(banner, [distance |-> distance]))]
          ELSE b
  ELSE IF banner.locationUrl = Null /\ ~IsTruthy(banner.pincode)
  THEN [b EXCEPT !.fallback = Append(@, Spread(banner, [locationScore |-> 25]))]
  ELSE b

\* Variant: a banner whose hints do not resolve goes to Fallback.
bannerBuckets_fallbackOnFailure(b, userLoc, banner, bannerLocation) ==
  IF bannerLocation = Null
  THEN [b EXCEPT !.fallback =
                   Append(@, Spread(banner, [locationScore |-> 50]))]
  ELSE IF isBannerInUserArea(userLoc, bannerLocation)
  THEN [b EXCEPT !.area =
                   Append(@, ScoredCopy(userLoc, bannerLocation, banner,
                                        calculateBannerLocationScore(
                                          userLoc, bannerLocation, banner)))]
  ELSE IF BothHaveCoordinates(userLoc, bannerLocation)
          /\ SameState(userLoc, bannerLocation)
  THEN LET distance == scoredDistance(userLoc, bannerLocation)
       IN IF distance <= NearbyRadiusKm
          THEN [b EXCEPT !.nearby =
                           Append(@, Spread(banner, [distance |-> distance]))]
          ELSE b
  ELSE IF banner.locationUrl = Null /\ ~IsTruthy(banner.pincode)
          /\ banner.city = Null
  THEN [b EXCEPT !.fallback = Append(@, Spread(banner, [locationScore |-> 25]))]
  ELSE b

\* index.js: the body of the for-of loop of getFilteredBanners.
bannerBuckets(b, userLoc, banner, bannerLocation) ==
  IF bannerLocation = Null
  THEN IF banner.locationUrl = Null /\ ~IsTruthy(banner.pincode)
          /\ banner.city = Null
       THEN [b EXCEPT !.fallback =
                        Append(@, Spread(banner, [locationScore |-> 50]))]
       ELSE b
  ELSE IF isBannerInUserArea(userLoc, bannerLocation)
  THEN [b EXCEPT !.area =
                   Append(@, ScoredCopy(userLoc, bannerLocation, banner,
                                        calculateBannerLocationScore(
                                          userLoc, bannerLocation, banner)))]
  ELSE IF BothHaveCoordinates(userLoc, bannerLocation)
          /\ SameState(userLoc, bannerLocation)
  THEN LET distance == scoredDistance(userLoc, bannerLocation)
       IN IF distance <= NearbyRadiusKm
          THEN [b EXCEPT !.nearby =
                           Append(@, Spread(banner, [distance |-> distance]))]
          ELSE b
  ELSE IF banner.locationUrl = Null /\ ~IsTruthy(banner.pincode)
          /\ banner.city = Null
  THEN [b EXCEPT !.fallback = Append(@, Spread(banner, [locationScore |-> 25]))]
  ELSE b

\* Variant: an unresolved row empties the buckets filled so far.
listingBuckets_resetOnFailure(b, userLoc, listing, listingLocation) ==
  IF listingLocation = Null
  THEN Buckets(<<>>, <<>>, <<>>, <<listing>>)
  ELSE IF isListingInUserArea(userLoc, listingLocation)
  THEN [b EXCEPT !.area =
                   Append(@, ScoredCopy(userLoc, listingLocation, listing,
                                        calculateListingLocationScore(
                                          userLoc, listingLocation, listing)))]
  ELSE IF BothHaveCoordinates(userLoc, listingLocation)
  THEN [b EXCEPT !.nearby =
                   Append(@, Spread(listing,
                                    [distance |->
                                       scoredDistance(userLoc, listingLocation)]))]
  ELSE [b EXCEPT !.fallback = Append(@, listing)]

\* Variant: a listing is nearby only within the radius of the banners.
listingBuckets_withinRadius(b, userLoc, listing, listingLocation) ==
  IF listingLocation = Null
  THEN [b EXCEPT !.fallback = Append(@, listing)]
  ELSE IF isListingInUserArea(userLoc, listingLocation)
  THEN [b EXCEPT !.area =
                   Append(@, ScoredCopy(userLoc, listingLocation, listing,
                                        calculateListingLocationScore(
                                          userLoc, listingLocation, listing)))]
  ELSE IF BothHaveCoordinates(userLoc, listingLocation)
          /\ scoredDistance(userLoc, listingLocation) <= NearbyRadiusKm
  THEN [b EXCEPT !.nearby =
                   Append(@, Spread(listing,
                                    [distance |->
                                       scoredDistance(userLoc, listingLocation)]))]
  ELSE [b EXCEPT !.fallback = Append(@, listing)]

\* index.js: the body of the for-of loop of getFilteredRandomListings.
listingBuckets(b, userLoc, listing, listingLocation) ==
  IF listingLocation = Null
  THEN [b EXCEPT !.fallback = Append(@, listing)]
  ELSE IF isListingInUserArea(userLoc, listingLocation)
  THEN [b EXCEPT !.area =
                   Append(@, ScoredCopy(userLoc, listingLocation, listing,
                                        calculateListingLocationScore(
                                          userLoc, listingLocation, listing)))]
  ELSE IF BothHaveCoordinates(userLoc, listingLocation)
  THEN [b EXCEPT !.nearby =
                   Append(@, Spread(listing,
                                    [distance |->
                                       scoredDistance(userLoc, listingLocation)]))]
  ELSE [b EXCEPT !.fallback = Append(@, listing)]

(* ------------------------- the selection strategy ---------------------- *)
\* Variant: the remaining slots filled from all tiers in order.
bottomBannersSelected_toppedUp(b, max) ==
  LET remainingSlots == max - Len(b.global)
  IN IF remainingSlots > 0
     THEN b.global \o slice(sortByScoreDesc(b.area)
                              \o sortByDistanceAsc(b.nearby) \o b.fallback,
                            remainingSlots)
     ELSE b.global

\* upload.js 201-244: global banners, then the first tier that has rows.
bottomBannersSelected(b, max) ==
  LET remainingSlots == max - Len(b.global)
  IN IF remainingSlots > 0
     THEN IF b.area # <<>>
          THEN b.global \o slice(sortByScoreDesc(b.area), remainingSlots)
          ELSE IF b.nearby # <<>>
          THEN b.global \o slice(sortByDistanceAsc(b.nearby), remainingSlots)
          ELSE b.global \o slice(b.fallback, remainingSlots)
     ELSE b.global

\* Variant: the tiers merged in order of priority.
bannersSelected_merged(b, max) ==
  slice(sortByScoreDesc(b.area) \o sortByDistanceAsc(b.nearby) \o b.fallback,
        max)

\* index.js 1932-1969.
bannersSelected(b, max) ==
  IF b.area # <<>> THEN slice(sortByScoreDesc(b.area), max)
  ELSE IF b.nearby # <<>> THEN slice(sortByDistanceAsc(b.nearby), max)
  ELSE slice(b.fallback, max)

\* Variant: Nearby consulted before Area.
listingsSource_nearbyFirst(b, max) ==
  IF b.nearby # <<>> THEN slice(sortByDistanceAsc(b.nearby), max * 2)
  ELSE IF b.area # <<>> THEN sortByScoreDesc(b.area)
  ELSE b.fallback

\* index.js 1273-1312: the array getRandomListings draws from.
listingsSource(b, max) ==
  IF b.area # <<>> THEN sortByScoreDesc(b.area)
  ELSE IF b.nearby # <<>> THEN slice(sortByDistanceAsc(b.nearby), max * 2)
  ELSE b.fallback

\* Variant: only rows without location hints are sampled.
randomSample_hintless(c, pool, max, rnd) ==
  LET hintless == SelectSeq(pool, LAMBDA row : row.locationUrl = Null
                                               /\ ~IsTruthy(row.pincode))
  IN slice(hintless, max)

\* Variant: the shuffle without the cut to max.
randomSample_noslice(c, pool, max, rnd) == shuffleArray(pool, rnd)

\* The early returns: a sample of the whole pool.
randomSample(c, pool, max, rnd) ==
  IF c = "listings" THEN getRandomListings(pool, max, rnd)
  ELSE slice(shuffleArray(pool, rnd), max)

(* -------------------------------- actions ------------------------------ *)
CurrentBuckets ==
  Buckets(areaBanners, nearbyBanners, globalBanners, fallbackBanners)

SetBuckets(b) ==
  /\ areaBanners' = b.area
  /\ nearbyBanners' = b.nearby
  /\ globalBanners' = b.global
  /\ fallbackBanners' = b.fallback

\* A request without a postal code: the pool is fetched and sampled.
RequestNoPincode(c, pin, max) ==
  /\ pc = "idle"
  /\ TableOf(c) = table
  /\ ~IsTruthy(pin)
  /\ \E rnd \in RandomChoices(Len(store)) :
       output' = randomSample(c, store, max, rnd)
  /\ pc' = "done"
  /\ cascade' = c
  /\ userPincode' = pin
  /\ maxResults' = max
  /\ allBanners' = store
  /\ UNCHANGED <<fn, table, store, locationCache, userLocation, idx, bannerLocations,
                 buckets>>

\* A request with a postal code, up to the end of its lookup: either the
\* early return with a sample of the pool, or the start of the loop.
RequestWithPincode(c, pin, max) ==
  /\ pc = "idle"
  /\ TableOf(c) = table
  /\ IsTruthy(pin)
  /\ \E outcome \in GeocodeOutcomes :
       LET r == getEnhancedLocationData(locationCache, pin, outcome)
       IN /\ locationCache' = r.cache
          /\ userLocation' = r.loc
          /\ IF r.threw
             THEN pc' = "threw" /\ idx' = 0 /\ output' = <<>>
             ELSE IF r.loc = Null
             THEN /\ pc' = "done"
                  /\ idx' = 0
                  /\ \E rnd \in RandomChoices(Len(store)) :
                       output' = randomSample(c, store, max, rnd)
             ELSE pc' = "classify" /\ idx' = 1 /\ output' = <<>>
  /\ cascade' = c
  /\ userPincode' = pin
  /\ maxResults' = max
  /\ allBanners' = store
  /\ UNCHANGED <<fn, table, store, bannerLocations, buckets>>

\* One turn of the loop: r is what the row's resolver returned.
Classified(r, b) ==
  /\ locationCache' = r.cache
  /\ bannerLocations' = Append(bannerLocations, r.loc)
  /\ IF r.threw
     THEN pc' = "threw" /\ idx' = idx /\ UNCHANGED buckets
     ELSE pc' = "classify" /\ idx' = idx + 1 /\ SetBuckets(b)
  /\ UNCHANGED <<fn, table, store, cascade, userPincode, maxResults, allBanners,
                 userLocation, output>>

ClassifyBottomBanner ==
  /\ pc = "classify"
  /\ cascade = "bottomBanners"
  /\ idx <= Len(allBanners)
  /\ LET banner == allBanners[idx]
     IN \E oracle \in OraclesFor(banner) :
          LET r == IF IsGlobal(banner) THEN Return(Null, locationCache)
                   ELSE getBottomBannerLocationData(locationCache, banner,
                                                    oracle)
          IN Classified(r, bottomBannerBuckets(CurrentBuckets, userLocation,
                                               banner, r.loc))

ClassifyBanner ==
  /\ pc = "classify"
  /\ cascade = "banners"
  /\ idx <= Len(allBanners)
  /\ LET banner == allBanners[idx]
     IN \E oracle \in OraclesFor(banner) :
          LET r == getBannerLocationData(locationCache, banner, oracle)
          IN Classified(r, bannerBuckets(CurrentBuckets, userLocation,
                                         banner, r.loc))

ClassifyListing ==
  /\ pc = "classify"
  /\ cascade = "listings"
  /\ idx <= Len(allBanners)
  /\ LET listing == allBanners[idx]
     IN \E oracle \in OraclesFor(listing) :
          LET r == getListingLocationData(locationCache, listing, oracle)
          IN Classified(r, listingBuckets(CurrentBuckets, userLocation,
                                          listing, r.loc))

\* The in-place sorts of the selection.
Sorted ==
  /\ areaBanners' = IF areaBanners # <<>> THEN sortByScoreDesc(areaBanners)
                    ELSE areaBanners
  /\ nearbyBanners' = IF areaBanners = <<>> /\ nearbyBanners # <<>>
                      THEN sortByDistanceAsc(nearbyBanners)
                      ELSE nearbyBanners

\* Variant: the selection written back to the table.
Selected_writtenBack ==
  /\ pc' = "done"
  /\ store' = output'
  /\ UNCHANGED <<fn, table, locationCache, cascade, userPincode, maxResults,
                 allBanners, userLocation, idx, bannerLocations,
                 globalBanners, fallbackBanners>>

Selected ==
  /\ pc' = "done"
  /\ UNCHANGED <<fn, table, store, locationCache, cascade, userPincode, maxResults,
                 allBanners, userLocation, idx, bannerLocations,
                 globalBanners, fallbackBanners>>

SelectBottomBanners ==
  /\ pc = "classify"
  /\ cascade = "bottomBanners"
  /\ idx > Len(allBanners)
  /\ LET selectedBanners == bottomBannersSelected(CurrentBuckets, maxResults)
         globalCount == Len(globalBanners)
         globalPart == slice(selectedBanners, globalCount)
         rest == sliceFrom(selectedBanners, globalCount)
     IN \E rnd \in RandomChoices(Len(rest)) :
          output' = slice(globalPart \o shuffleArray(rest, rnd), maxResults)
  /\ IF maxResults - Len(globalBanners) > 0
     THEN Sorted ELSE UNCHANGED <<areaBanners, nearbyBanners>>
  /\ Selected

SelectBanners ==
  /\ pc = "classify"
  /\ cascade = "banners"
  /\ idx > Len(allBanners)
  /\ LET selectedBanners == bannersSelected(CurrentBuckets, maxResults)
     IN \E rnd \in RandomChoices(Len(selectedBanners)) :
          output' = slice(shuffleArray(selectedBanners, rnd), maxResults)
  /\ Sorted
  /\ Selected

SelectListings ==
  /\ pc = "classify"
  /\ cascade = "listings"
  /\ idx > Len(allBanners)
  /\ LET source == listingsSource(CurrentBuckets, maxResults)
     IN \E rnd1 \in RandomChoices(Len(source)) :
          LET selectedListings == getRandomListings(source, maxResults, rnd1)
          IN \E rnd2 \in RandomChoices(Len(selectedListings)) :
               output' = slice(shuffleArray(selectedListings, rnd2),
                               maxResults)
  /\ Sorted
  /\ Selected

\* The response is sent and the request's variables are gone.
Respond ==
  /\ pc = "done"
  /\ pc' = "idle"
  /\ cascade' = "none" /\ userPincode' = Null /\ maxResults' = 0
  /\ allBanners' = <<>> /\ userLocation' = Null /\ idx' = 0
  /\ bannerLocations' = <<>> /\ areaBanners' = <<>> /\ nearbyBanners' = <<>>
  /\ globalBanners' = <<>> /\ fallbackBanners' = <<>> /\ output' = <<>>
  /\ UNCHANGED <<fn, table, store, locationCache>>

\* setInterval(() => locationCache.clear(), 6 * 60 * 60 * 1000)
ClearLocationCache ==
  /\ locationCache # EmptyCache
  /\ locationCache' = EmptyCache
  /\ UNCHANGED <<fn, table, store, pc, locals>>

Next ==
  \/ \E c \in Cascades, pin \in UserPincodes, max \in 0 .. MaxResultsBound :
       RequestNoPincode(c, pin, max)
  \/ \E c \in Cascades, pin \in UserPincodes, max \in 0 .. MaxResultsBound :
       RequestWithPincode(c, pin, max)
  \/ ClassifyBottomBanner
  \/ ClassifyBanner
  \/ ClassifyListing
  \/ SelectBottomBanners
  \/ SelectBanners
  \/ SelectListings
  \/ Respond
  \/ ClearLocationCache

Spec == Init /\ [][Next]_vars

TypeOK ==
  /\ pc \in {"idle", "classify", "done", "threw"}
  /\ cascade \in Cascades \cup {"none"}
  /\ maxResults \in 0 .. MaxResultsBound
  /\ idx \in 0 .. (Len(allBanners) + 1)

(* ===================== properties of the selection ====================== *)
Ids(array) == {array[i].id : i \in DOMAIN array}
Done == pc = "done"
\* The request's postal code was given and resolved / was absent or failed.
Resolved == Done /\ userLocation # Null
Unresolved == Done /\ userLocation = Null
\* A global sentinel is a notion of the bottom banners only.
IsSentinel(banner) == cascade = "bottomBanners" /\ IsGlobal(banner)
NonSentinelIds(array) ==
  {array[i].id : i \in {j \in DOMAIN array : ~IsSentinel(array[j])}}
SentinelIds(array) ==
  {array[i].id : i \in {j \in DOMAIN array : IsSentinel(array[j])}}

\* C1: every cascade returns at most maxResults candidates, for every pool,
\* every requester postal code (absent, unresolvable, resolved) and every
\* maxResults >= 0.
C1_AtMostMaxResults == Done => Len(output) <= maxResults

\* A pool larger than maxResults, cut to maxResults on the resolved path.
C1_Witness ==
  /\ Resolved
  /\ Len(allBanners) > maxResults
  /\ maxResults >= 1
  /\ Len(output) = maxResults

\* The tier the selection draws from: the first of Area, Nearby and Fallback
\* that has a row.
FirstTier ==
  IF areaBanners # <<>> THEN areaBanners
  ELSE IF nearbyBanners # <<>> THEN nearbyBanners
  ELSE fallbackBanners

\* C2 as the specification words it: whatever the requester postal code, the
\* output has min(maxResults, size of the eligible pool) candidates.
C2_LengthIsMinOfPool == Done => Len(output) = Min(maxResults, Len(allBanners))

\* C2, amended: without a resolved postal code the output has
\* min(maxResults, pool size) candidates; with a resolved one it has
\* min(maxResults, global sentinels + size of the first tier that has a row),
\* which is never more than min(maxResults, pool size).
C2_LengthByTier ==
  /\ Unresolved => Len(output) = Min(maxResults, Len(allBanners))
  /\ Resolved =>
       /\ Len(output) = Min(maxResults, Len(globalBanners) + Len(FirstTier))
       /\ Len(output) <= Min(maxResults, Len(allBanners))

\* A resolved request answered with fewer candidates than both maxResults
\* and the pool allow: a tier was chosen and the others left out.
C2_Witness ==
  /\ Resolved
  /\ output # <<>>
  /\ Len(output) < Min(maxResults, Len(allBanners))

\* C3: every candidate of the output is a candidate of the input pool, by
\* id, and none appears twice.
C3_SubsetNoDuplicates ==
  Done => /\ Ids(output) \subseteq Ids(allBanners)
          /\ Cardinality(Ids(output)) = Len(output)

\* Two candidates picked out of a larger pool by the tiered selection.
C3_Witness ==
  /\ Resolved
  /\ Len(output) >= 2
  /\ Len(allBanners) > Len(output)

\* C4 as the specification words it: with a global sentinel in the pool and
\* maxResults >= 1, the bottom banners' output has a sentinel, and leaves no
\* sentinel out while it holds a non-sentinel, whatever the requester
\* location (absent and unresolvable postal codes included).
C4_SentinelAlwaysPresent ==
  (Done /\ cascade = "bottomBanners" /\ maxResults >= 1
        /\ SentinelIds(allBanners) # {})
    => /\ SentinelIds(output) # {}
       /\ NonSentinelIds(output) # {}
            => SentinelIds(allBanners) \subseteq SentinelIds(output)

\* What the requirements say of the buckets, row by row: Area is the area
\* classifier's verdict on the row's resolved location; Nearby is, for a
\* listing, a resolved row outside the area with coordinates on both sides,
\* and for a banner such a row of the requester's state within the radius.
InArea(i) ==
  /\ ~IsSentinel(allBanners[i])
  /\ bannerLocations[i] # Null
  /\ IF cascade = "listings"
     THEN isListingInUserArea(userLocation, bannerLocations[i])
     ELSE isBannerInUserArea(userLocation, bannerLocations[i])

InNearby(i) ==
  /\ ~IsSentinel(allBanners[i])
  /\ bannerLocations[i] # Null
  /\ ~InArea(i)
  /\ BothHaveCoordinates(userLocation, bannerLocations[i])
  /\ cascade # "listings" =>
       /\ SameState(userLocation, bannerLocations[i])
       /\ scoredDistance(userLocation, bannerLocations[i]) <= NearbyRadiusKm

AreaIds == {allBanners[i].id : i \in {j \in DOMAIN bannerLocations : InArea(j)}}
NearbyIds ==
  {allBanners[i].id : i \in {j \in DOMAIN bannerLocations : InNearby(j)}}

\* C5: with a resolved requester location and an Area bucket of at least
\* maxResults candidates, every non-sentinel candidate of the output is an
\* Area candidate: none of Nearby or Fallback appears.
C5_OnlyAreaWhenAreaFills ==
  (Resolved /\ Cardinality(AreaIds) >= maxResults)
    => NonSentinelIds(output) \subseteq AreaIds

\* The Area bucket fills the request while the pool has rows outside it.
C5_Witness ==
  /\ Resolved
  /\ maxResults >= 1
  /\ Cardinality(AreaIds) >= maxResults
  /\ NonSentinelIds(allBanners) \ AreaIds # {}
  /\ NonSentinelIds(output) # {}

\* C6 as the specification words it: with a resolved requester location and
\* an Area bucket that is non-empty but smaller than maxResults, the
\* non-sentinel part of the output is exactly the Area bucket; likewise the
\* Nearby bucket when Area is empty.
C6_ExactlyTheTier ==
  Resolved =>
    /\ (AreaIds # {} /\ Cardinality(AreaIds) < maxResults)
         => NonSentinelIds(output) = AreaIds
    /\ (AreaIds = {} /\ NearbyIds # {} /\ Cardinality(NearbyIds) < maxResults)
         => NonSentinelIds(output) = NearbyIds

\* The slots the global sentinels leave to the tier.
RemainingSlots == Max(0, maxResults - Cardinality(SentinelIds(allBanners)))

\* C6, amended: the non-sentinel part of the output comes from the first
\* non-empty tier only and is never topped up from a lower tier; it holds
\* min(size of the tier, maxResults - number of sentinels) candidates, so it
\* is exactly the tier when the tier fits in the slots the sentinels leave.
C6_TierIsolation ==
  Resolved =>
    /\ AreaIds # {} =>
         /\ NonSentinelIds(output) \subseteq AreaIds
         /\ Cardinality(NonSentinelIds(output))
              = Min(Cardinality(AreaIds), RemainingSlots)
    /\ (AreaIds = {} /\ NearbyIds # {}) =>
         /\ NonSentinelIds(output) \subseteq NearbyIds
         /\ Cardinality(NonSentinelIds(output))
              = Min(Cardinality(NearbyIds), RemainingSlots)

\* One Area candidate, maxResults 2, other candidates in the pool: the
\* output is the Area candidate alone.
C6_Witness ==
  /\ Resolved
  /\ AreaIds # {}
  /\ Cardinality(AreaIds) < maxResults
  /\ NonSentinelIds(output) = AreaIds
  /\ NonSentinelIds(allBanners) \ AreaIds # {}
  /\ Len(output) < maxResults

FailingOraclesFor(banner) ==
  {oracle \in OraclesFor(banner) :
     /\ (banner.locationUrl # Null \/ banner.city # Null)
          => oracle.latlng # "OK"
     /\ IsTruthy(banner.pincode) => oracle.pincode # "OK"
     /\ banner.city # Null => (oracle.city # "OK" /\ oracle.osm # "OK")}

\* A resolver's return after failed calls: no exception, and either a
\* location the cache already held or null with the cache as it was.
FailedQuietly(r) ==
  /\ ~r.threw
  /\ \/ r.loc = Null /\ r.cache = locationCache
     \/ \E k \in DOMAIN locationCache : locationCache[k] = r.loc

\* The resolver the cascade in progress calls for a row.
ResolverOf(c, cache, banner, oracle) ==
  CASE c = "bottomBanners" -> getBottomBannerLocationData(cache, banner, oracle)
    [] c = "banners" -> getBannerLocationData(cache, banner, oracle)
    [] c = "listings" -> getListingLocationData(cache, banner, oracle)

\* C8: no failure of a geocoding or redirect call (error, timeout, status
\* other than "OK", empty result) leaves the cascade as an exception: the
\* lookup a request is about to make for its postal code, and the one the
\* loop is about to make for its row, give a null location when their calls
\* fail, and a request whose postal code failed is answered with a list.
C8_FailuresBecomeNull ==
  /\ pc # "threw"
  /\ pc = "idle" =>
       \A pin \in {p \in UserPincodes : IsTruthy(p)} :
         \A outcome \in GeocodeOutcomes \ {"OK"} :
           FailedQuietly(getEnhancedLocationData(locationCache, pin, outcome))
  /\ (pc = "classify" /\ idx <= Len(allBanners)) =>
       \A oracle \in FailingOraclesFor(allBanners[idx]) :
         /\ FailedQuietly(ResolverOf(cascade, locationCache, allBanners[idx],
                                     oracle))
         /\ fromLocationUrl(allBanners[idx], oracle) = Null
  /\ (Unresolved /\ IsTruthy(userPincode))
       => Len(output) = Min(maxResults, Len(allBanners))

\* The requester's postal code failed to resolve and the request was still
\* answered with candidates.
C8_Witness ==
  /\ Unresolved
  /\ IsTruthy(userPincode)
  /\ "enhanced_location_" \o toString(userPincode) \notin DOMAIN locationCache
  /\ output # <<>>

\* The buckets a row goes to when it is classified on its own.
RowBuckets(i) ==
  LET none == Buckets(<<>>, <<>>, <<>>, <<>>)
  IN CASE cascade = "bottomBanners" ->
            bottomBannerBuckets(none, userLocation, allBanners[i],
                                bannerLocations[i])
       [] cascade = "banners" ->
            bannerBuckets(none, userLocation, allBanners[i], bannerLocations[i])
       [] cascade = "listings" ->
            listingBuckets(none, userLocation, allBanners[i],
                           bannerLocations[i])

BucketNames == {"area", "nearby", "global", "fallback"}

\* Every classified row is in the buckets its own location sends it to.
BucketsAreRowwise ==
  \A i \in DOMAIN bannerLocations : \A n \in BucketNames :
    (allBanners[i].id \in Ids(CurrentBuckets[n])) <=> (RowBuckets(i)[n] # <<>>)

HasHint(row) ==
  row.locationUrl # Null \/ IsTruthy(row.pincode) \/ row.city # Null

\* A bucket after a turn of the loop: as it was, or with the row at idx added.
Kept(before, after) ==
  \/ after = before
  \/ /\ Len(after) = Len(before) + 1
     /\ SubSeq(after, 1, Len(before)) = before
     /\ after[Len(after)].id = allBanners[idx].id

\* The turn of the loop in which the resolution of the row at idx failed.
FailureStep ==
  /\ pc = "classify"
  /\ Len(bannerLocations') = Len(bannerLocations) + 1
  /\ bannerLocations'[Len(bannerLocations')] = Null
  /\ HasHint(allBanners[idx]) /\ ~IsSentinel(allBanners[idx])

FailureIsLocal ==
  FailureStep =>
    /\ pc' = "classify" /\ idx' = idx + 1
    /\ locationCache' = locationCache
    /\ Kept(areaBanners, areaBanners') /\ Kept(nearbyBanners, nearbyBanners')
    /\ Kept(globalBanners, globalBanners')
    /\ Kept(fallbackBanners, fallbackBanners')

\* C9: a candidate whose location does not resolve affects that candidate
\* only: the loop goes on to the next row, what is cached and where the
\* other rows are stay as they were, and every row's bucket is the one its
\* own location gives, whatever happened to the other rows.
C9_FailureAffectsOneCandidate == []BucketsAreRowwise /\ [][FailureIsLocal]_vars

\* A candidate with a postal code did not resolve; another is in the Area
\* bucket and in the output.
C9_Witness ==
  /\ Resolved
  /\ \E i \in DOMAIN bannerLocations :
       /\ bannerLocations[i] = Null
       /\ IsTruthy(allBanners[i].pincode) /\ ~IsSentinel(allBanners[i])
       /\ \E j \in DOMAIN bannerLocations :
            /\ j # i
            /\ allBanners[j].id \in AreaIds \cap Ids(output)

(* ======================= the area classifier alone ====================== *)
\* The fields a location can have in the study of the classifier.
AreaDistricts == {NULL, "", "Pune", "PUNE", "Mumbai"}
AreaCities == {NULL, "Pune", "pune", "Mumbai"}
AreaStates == {NULL, "Maharashtra", "MAHARASHTRA", "Karnataka"}
AreaCoordinates == {Null, Coords(0, 0), Coords(55, 0), Coords(56, 0)}

UserLocations ==
  {Null} \cup {Location(c, d, NULL, t, s) :
                 c \in {Null, Coords(0, 0)}, d \in {NULL, "Pune"},
                 t \in {NULL, "Pune"}, s \in {NULL, "Maharashtra"}}

CandidateLocations ==
  {Null} \cup {Location(c, d, NULL, t, s) :
                 c \in AreaCoordinates, d \in AreaDistricts,
                 t \in AreaCities, s \in AreaStates}

InitArea ==
  /\ fn \in {[op |-> "arguments", userLocation |-> u, bannerLocation |-> l,
              result |-> FALSE] : u \in UserLocations, l \in CandidateLocations}
  /\ table = "Listing"
  /\ store = <<>>
  /\ locationCache = EmptyCache
  /\ pc = "idle"
  /\ NoRequest

CallIsBannerInUserArea ==
  /\ fn.op = "arguments"
  /\ fn' = [fn EXCEPT !.op = "isBannerInUserArea",
                      !.result = isBannerInUserArea(fn.userLocation,
                                                    fn.bannerLocation)]
  /\ UNCHANGED <<table, store, locationCache, pc, locals>>

CallIsListingInUserArea ==
  /\ fn.op = "arguments"
  /\ fn' = [fn EXCEPT !.op = "isListingInUserArea",
                      !.result = isListingInUserArea(fn.userLocation,
                                                     fn.bannerLocation)]
  /\ UNCHANGED <<table, store, locationCache, pc, locals>>

NextArea == CallIsBannerInUserArea \/ CallIsListingInUserArea

SpecArea == InitArea /\ [][NextArea]_vars

\* Names that differ by the case of their letters only.
CaseClasses ==
  {{"Pune", "PUNE", "pune"}, {"Mumbai"}, {"Maharashtra", "MAHARASHTRA"},
   {"Karnataka"}, {"Haveli", "haveli"}, {"Khalapur"}}

Present(s) == s # NULL /\ s # ""

PresentAndEqualIgnoringCase(a, b) ==
  Present(a) /\ Present(b) /\ \E class \in CaseClasses : {a, b} \subseteq class

\* The requirement on the area classifier, as the specification words it.
SameArea(u, l) ==
  /\ u # Null /\ l # Null
  /\ \/ PresentAndEqualIgnoringCase(u.district, l.district)
     \/ PresentAndEqualIgnoringCase(u.city, l.city)
     \/ /\ PresentAndEqualIgnoringCase(u.state, l.state)
        /\ u.coordinates # Null /\ l.coordinates # Null
        /\ Abs(u.coordinates.lat - l.coordinates.lat) <= 55

C11_AreaClassifierSymmetric ==
  /\ fn.op = "isBannerInUserArea"
       => fn.result = isBannerInUserArea(fn.bannerLocation, fn.userLocation)
  /\ fn.op = "isListingInUserArea"
       => fn.result = isListingInUserArea(fn.bannerLocation, fn.userLocation)

\* A pair that is one area by its cities, written in different case, with a
\* district on one side only.
C11_Witness ==
  /\ fn.op = "isListingInUserArea"
  /\ fn.result = TRUE
  /\ fn.userLocation = Location(Null, NULL, NULL, "Pune", NULL)
  /\ fn.bannerLocation
       = Location(Coords(56, 0), "Mumbai", NULL, "pune", "Karnataka")

(* ======================= the relevance scorer alone ===================== *)
\* The requester, the candidate locations and the service radii (0: none
\* declared) of the study of the scorer; distances straddle 5, 10 and 20 km.
ScoreUserLocations ==
  {Location(c, d, sd, t, "Maharashtra") :
     c \in {Null, Coords(0, 0)}, d \in {NULL, "Pune"},
     sd \in {NULL, "Haveli"}, t \in {NULL, "Pune"}}

ScoreCandidateLocations ==
  {Location(c, d, sd, t, "Maharashtra") :
     c \in {Null} \cup {Coords(lat, 0) : lat \in {0, 5, 6, 10, 11, 20, 21, 30}},
     d \in {NULL, "Pune"}, sd \in {NULL, "", "haveli", "Khalapur"},
     t \in {NULL, "pune", "Mumbai"}}

ServiceRadii == {0, 5, 25}

InitScore ==
  /\ fn \in {[op |-> "arguments", userLocation |-> u, bannerLocation |-> l,
              banner |-> Candidate(1, Null, Null, Null, r), result |-> 0] :
               u \in ScoreUserLocations, l \in ScoreCandidateLocations,
               r \in ServiceRadii}
  /\ table = "Listing"
  /\ store = <<>>
  /\ locationCache = EmptyCache
  /\ pc = "idle"
  /\ NoRequest

CallCalculateBannerLocationScore ==
  /\ fn.op = "arguments"
  /\ fn' = [fn EXCEPT !.op = "calculateBannerLocationScore",
                      !.result = calculateBannerLocationScore(
                                   fn.userLocation, fn.bannerLocation,
                                   fn.banner)]
  /\ UNCHANGED <<table, store, locationCache, pc, locals>>

CallCalculateListingLocationScore ==
  /\ fn.op = "arguments"
  /\ fn' = [fn EXCEPT !.op = "calculateListingLocationScore",
                      !.result = calculateListingLocationScore(
                                   fn.userLocation, fn.bannerLocation,
                                   fn.banner)]
  /\ UNCHANGED <<table, store, locationCache, pc, locals>>

NextScore ==
  CallCalculateBannerLocationScore \/ CallCalculateListingLocationScore

SpecScore == InitScore /\ [][NextScore]_vars

ScoreCalls ==
  {"calculateBannerLocationScore", "calculateListingLocationScore"}

\* The score the requirement gives: 100, plus 50 and 30 for the city and the
\* sub-district, plus the proximity tier, plus 10 for a listing within its
\* declared service radius.
RequiredScore(u, l, radius, ofListing) ==
  LET km == Abs(u.coordinates.lat - l.coordinates.lat)
      located == u.coordinates # Null /\ l.coordinates # Null
  IN 100
     + (IF PresentAndEqualIgnoringCase(u.city, l.city) THEN 50 ELSE 0)
     + (IF PresentAndEqualIgnoringCase(u.subDistrict, l.subDistrict)
        THEN 30 ELSE 0)
     + (IF ~located THEN 0
        ELSE IF km <= 5 THEN 20 ELSE IF km <= 10 THEN 16
        ELSE IF km <= 20 THEN 12 ELSE 0)
     + (IF ofListing /\ located /\ radius # 0 /\ km <= radius THEN 10 ELSE 0)

\* C12: for an in-area candidate the scorer returns 100, + 50 when the
\* cities match ignoring case, + 30 when the sub-districts do, + 20, 16 or
\* 12 when both have coordinates at most 5, 10 or 20 km apart, + 10 for a
\* listing with a declared service radius that covers the distance; the
\* bonuses add up and the result is an integer.
C12_ScoreIsSumOfBonuses ==
  (fn.op \in ScoreCalls /\ isBannerInUserArea(fn.userLocation, fn.bannerLocation))
    => /\ fn.result \in Int
       /\ fn.result
            = RequiredScore(fn.userLocation, fn.bannerLocation,
                            fn.banner.serviceRadius,
                            fn.op = "calculateListingLocationScore")

\* Every bonus at once: city, sub-district, the 16 of 6 km, service radius.
C12_Witness ==
  /\ fn.op = "calculateListingLocationScore"
  /\ fn.userLocation
       = Location(Coords(0, 0), "Pune", "Haveli", "Pune", "Maharashtra")
  /\ fn.bannerLocation
       = Location(Coords(6, 0), "Pune", "haveli", "pune", "Maharashtra")
  /\ fn.banner.serviceRadius = 25
  /\ fn.result = 206

\* The score of the candidate of the call moved to another latitude.
ScoreAt(lat) ==
  LET moved == [fn.bannerLocation EXCEPT !.coordinates = Coords(lat, 0)]
  IN IF fn.op = "calculateListingLocationScore"
     THEN calculateListingLocationScore(fn.userLocation, moved, fn.banner)
     ELSE calculateBannerLocationScore(fn.userLocation, moved, fn.banner)

\* C13: of two in-area candidates that differ only in their distance to the
\* requester, the strictly closer one scores at least as much as the other.
C13_CloserScoresAtLeast ==
  (/\ fn.op \in ScoreCalls
   /\ fn.userLocation.coordinates # Null /\ fn.bannerLocation.coordinates # Null
   /\ isBannerInUserArea(fn.userLocation, fn.bannerLocation))
    => \A lat \in 0 .. 30 :
         (/\ Abs(lat - fn.userLocation.coordinates.lat)
               < scoredDistance(fn.userLocation, fn.bannerLocation)
          /\ isBannerInUserArea(
               fn.userLocation,
               [fn.bannerLocation EXCEPT !.coordinates = Coords(lat, 0)]))
           => ScoreAt(lat) >= fn.result

\* A listing 11 km away with a service radius of 5 km: 12 for the distance,
\* nothing for the radius, and closer positions that earn more.
C13_Witness ==
  /\ fn.op = "calculateListingLocationScore"
  /\ fn.userLocation = Location(Coords(0, 0), "Pune", NULL, NULL, "Maharashtra")
  /\ fn.bannerLocation
       = Location(Coords(11, 0), "Pune", NULL, NULL, "Maharashtra")
  /\ fn.banner.serviceRadius = 5
  /\ fn.result = 112
  /\ ScoreAt(5) = 130

(* ===================== the coordinate extraction alone ================== *)
\* What follows the "@", what the q parameter holds, what the place token
\* captures: nothing, numbers, or text that parseFloat turns into NaN.
AtParts ==
  {<<>>, <<Value(1)>>, <<NaNValue, Value(2)>>, <<Value(1), Value(2)>>,
   <<Value(1), Value(2), Value(17)>>}
QParts ==
  {<<>>, <<Value(3)>>, <<Value(3), NaNValue>>, <<Value(3), Value(4)>>,
   <<Value(3), Value(4), Value(17)>>}
PlaceParts == {<<>>, <<NaNValue, Value(6)>>, <<Value(5), Value(6)>>}

\* locationUrl is free text: strings new URL() accepts, strings it rejects
\* (no scheme), and short links that redirect or not.
StudyUrls ==
  {Url(FALSE, Null, at, TRUE, q, place) :
     at \in AtParts, q \in QParts, place \in PlaceParts}
  \cup {Url(FALSE, Null, at, FALSE, <<>>, place) :
          at \in AtParts, place \in PlaceParts}
  \cup {Url(TRUE, r, <<>>, TRUE, <<>>, <<>>) : r \in {Null, LongUrl}}

InitUrl ==
  /\ fn \in {[op |-> "arguments", url |-> u, outcome |-> o, result |-> Null] :
               u \in StudyUrls, o \in RedirectOutcomes}
  /\ table = "Listing"
  /\ store = <<>>
  /\ locationCache = EmptyCache
  /\ pc = "idle"
  /\ NoRequest

CallExtractCoordsFromUrl ==
  /\ fn.op = "arguments"
  /\ fn' = [fn EXCEPT !.op = "extractCoordsFromUrl",
                      !.result = extractCoordsFromUrl(fn.url, fn.outcome)]
  /\ UNCHANGED <<table, store, locationCache, pc, locals>>

NextUrl == CallExtractCoordsFromUrl

SpecUrl == InitUrl /\ [][NextUrl]_vars

\* Two valid numbers at the front of a list of parsed parts.
PairOf(parts) == Coords(parts[1].value, parts[2].value)
ParsesPair(parts) ==
  Len(parts) >= 2 /\ parts[1] # NaNValue /\ parts[2] # NaNValue

\* The result the requirement gives for a URL: the pair of the first of the
\* "@" segment, the q parameter (exactly lat,lng) and the place token that
\* parses, null when none does.
RequiredCoords(url) ==
  IF ParsesPair(url.at) THEN PairOf(url.at)
  ELSE IF Len(url.q) = 2 /\ ParsesPair(url.q) THEN PairOf(url.q)
  ELSE IF ParsesPair(url.place) THEN PairOf(url.place)
  ELSE Null

\* The URL the extraction works on: a short link is followed first.
Followed(url, outcome) ==
  IF url.short THEN resolveShortUrl(url, outcome) ELSE url

\* C14 as the specification words it: the extraction returns the pair of
\* the first of the three methods, tried in order "@", q, place token, that
\* yields two valid numbers; a later method is tried when an earlier one is
\* present and does not parse; when none parses the result is null.
C14_FirstParsingMethodWins ==
  fn.op = "extractCoordsFromUrl"
    => fn.result = RequiredCoords(Followed(fn.url, fn.outcome))

\* The same on the strings that new URL() accepts.
ExtractionOnWellFormedUrls ==
  (fn.op = "extractCoordsFromUrl" /\ Followed(fn.url, fn.outcome).wellFormed)
    => fn.result = RequiredCoords(Followed(fn.url, fn.outcome))

(* ========================= the resolvers alone ========================== *)
\* Rows for the study of the per-candidate resolvers: two with the same map
\* link and nothing else, one with every hint, two that share a postal
\* code, one of them with a city. A bottom banner has no city.
ResolveCatalog ==
  <<Candidate(11, LongUrl, Null, Null, 0),
    Candidate(12, LongUrl, Null, Null, 0),
    Candidate(13, LongUrl, Num(400001), [name |-> "Bengaluru"], 0),
    Candidate(14, Null, Num(400001), [name |-> "Bengaluru"], 0),
    Candidate(15, Null, Num(400001), Null, 0)>>

\* The rows a study looks at together.
ResolveTables(t) ==
  {SelectSeq(ResolveCatalog, LAMBDA row : row.id \in ids) :
     ids \in IF t = "BottomBanner" THEN {{11, 12}, {11, 15}, {15}}
             ELSE {{11, 12}, {13}, {13, 15}, {14, 15}}}

InitResolve ==
  /\ fn = NoCall
  /\ table \in {"Listing", "BottomBanner"}
  /\ store \in ResolveTables(table)
  /\ locationCache = EmptyCache
  /\ pc = "idle"
  /\ NoRequest

\* A cascade asks for the location of a row.
CallResolver(c, i, oracle) ==
  /\ TableOf(c) = table
  /\ LET r == ResolverOf(c, locationCache, store[i], oracle)
     IN /\ ~r.threw
        /\ locationCache' = r.cache
        /\ fn' = [op |-> "resolve", cascade |-> c, banner |-> store[i],
                  oracle |-> oracle, result |-> r.loc]
  /\ UNCHANGED <<table, store, pc, locals>>

\* A request asks for the location of its postal code.
CallGetEnhancedLocationData(pincode, outcome) ==
  /\ LET r == getEnhancedLocationData(locationCache, pincode, outcome)
     IN /\ ~r.threw
        /\ locationCache' = r.cache
        /\ fn' = [op |-> "getEnhancedLocationData", pincode |-> pincode,
                  outcome |-> outcome, result |-> r.loc]
  /\ UNCHANGED <<table, store, pc, locals>>

\* The periodic clear, seen from the study: no call is in the record.
ExpireLocationCache ==
  /\ locationCache # EmptyCache
  /\ locationCache' = EmptyCache
  /\ fn' = NoCall
  /\ UNCHANGED <<table, store, pc, locals>>

\* In this study a call of a provider succeeds or throws.
ResolveOraclesFor(banner) ==
  [redirect : IF banner.locationUrl # Null /\ banner.locationUrl.short
              THEN {"OK", "error"} ELSE {"OK"},
   latlng : IF banner.locationUrl # Null \/ banner.city # Null
            THEN {"OK", "error"} ELSE {"OK"},
   pincode : IF IsTruthy(banner.pincode) THEN {"OK", "error"} ELSE {"OK"},
   city : IF banner.city # Null THEN {"OK", "error"} ELSE {"OK"},
   osm : IF banner.city # Null THEN {"OK", "error"} ELSE {"OK"}]

NextResolve ==
  \/ \E c \in Cascades, i \in DOMAIN store :
       \E oracle \in ResolveOraclesFor(store[i]) : CallResolver(c, i, oracle)
  \/ \E outcome \in {"OK", "error"} :
       CallGetEnhancedLocationData(Str("400001"), outcome)
  \/ ExpireLocationCache

SpecResolve == InitResolve /\ [][NextResolve]_vars

\* The key under which a cascade's resolver caches the location of a row.
OwnKey(c, banner) ==
  CASE c = "bottomBanners" -> "bottom_banner_location_" \o ToString(banner.id)
    [] c = "banners" -> "banner_location_" \o ToString(banner.id)
    [] c = "listings" -> "listing_location_" \o ToString(banner.id)

\* A step in which a resolver is called for a row whose location it has
\* not cached.
ResolveStep ==
  /\ fn' # fn
  /\ fn'.op = "resolve"
  /\ OwnKey(fn'.cascade, fn'.banner) \notin DOMAIN locationCache

\* A map link that is not shortened and has an "@lat,lng" segment.
HasAtSegment(url) == url # Null /\ ~url.short /\ ParsesPair(url.at)

\* C15 as the specification words it: a candidate whose non-shortened map
\* link has an "@lat,lng" segment has a location with those coordinates,
\* whatever the geocoding provider answers.
C15_LocationCarriesLinkCoordinates ==
  (fn.op = "resolve" /\ HasAtSegment(fn.banner.locationUrl))
    => /\ fn.result # Null
       /\ fn.result.coordinates = PairOf(fn.banner.locationUrl.at)

ExtractionNeedsNoProvider ==
  \A i \in DOMAIN store :
    HasAtSegment(store[i].locationUrl) =>
      \A outcome \in RedirectOutcomes :
        extractCoordsFromUrl(store[i].locationUrl, outcome)
          = PairOf(store[i].locationUrl.at)

LinkLocationNeedsProvider ==
  (ResolveStep /\ HasAtSegment(fn'.banner.locationUrl)) =>
    LET pair == PairOf(fn'.banner.locationUrl.at)
    IN IF fn'.oracle.latlng = "OK"
       THEN fn'.result # Null /\ fn'.result.coordinates = pair
       ELSE fn'.result = Null \/ fn'.result.coordinates # pair

\* C15, amended: the coordinates of an "@lat,lng" segment of a non-shortened
\* link are extracted without any call of a provider; the candidate's
\* location carries them when the reverse geocoding of the pair succeeds,
\* and when that call fails the link gives no location: the location is
\* null or that of a hint of lower priority.
C15_LinkCoordinatesNeedReverseGeocoding ==
  []ExtractionNeedsNoProvider /\ [][LinkLocationNeedsProvider]_vars

\* The provider is down and the candidate with only a link has no location.
C15_Witness ==
  /\ fn.op = "resolve"
  /\ fn.banner.id = 11
  /\ fn.oracle.latlng = "error"
  /\ fn.result = Null
  /\ extractCoordsFromUrl(fn.banner.locationUrl, "error") = Coords(4, 0)

\* The hints of a row, and a row with exactly one of them.
HintsOf(row) ==
  <<row.locationUrl, IF IsTruthy(row.pincode) THEN row.pincode ELSE Null,
    row.city>>
SingleHint(row) ==
  Cardinality({k \in 1 .. 3 : HintsOf(row)[k] # Null}) = 1

CascadesOf(t) == {c \in Cascades : TableOf(c) = t}

PincodeKeys ==
  {"enhanced_location_" \o toString(p) :
     p \in {Str("400001")}
           \cup {store[i].pincode : i \in {j \in DOMAIN store :
                                             IsTruthy(store[j].pincode)}}}
CityKeys ==
  {"city_location_" \o store[i].city.name :
     i \in {j \in DOMAIN store : store[j].city # Null}}
OwnKeys == {OwnKey(c, store[i]) : c \in CascadesOf(table), i \in DOMAIN store}

\* What is cached is returned, whatever the providers would answer, and the
\* keys are those of postal codes, of city names and of candidates.
CachedIsReturned ==
  /\ DOMAIN locationCache \subseteq PincodeKeys \cup CityKeys \cup OwnKeys
  /\ \A p \in {Str("400001"), Num(400001)} :
       "enhanced_location_" \o toString(p) \in DOMAIN locationCache =>
         \A outcome \in GeocodeOutcomes :
           getEnhancedLocationData(locationCache, p, outcome)
             = Return(locationCache["enhanced_location_" \o toString(p)],
                      locationCache)
  /\ "city_location_Bengaluru" \in DOMAIN locationCache =>
       \A oracle \in Oracles :
         getLocationDataFromCity(locationCache, Str("Bengaluru"), oracle)
           = Return(locationCache["city_location_Bengaluru"], locationCache)
  /\ \A i \in DOMAIN store : \A c \in CascadesOf(table) :
       OwnKey(c, store[i]) \in DOMAIN locationCache =>
         \A oracle \in ResolveOraclesFor(store[i]) :
           ResolverOf(c, locationCache, store[i], oracle)
             = Return(locationCache[OwnKey(c, store[i])], locationCache)

\* A location is in the cache when it is returned.
StoredBeforeReturned ==
  /\ (fn' # fn /\ fn'.op = "resolve" /\ fn'.result # Null) =>
       /\ cacheGet(locationCache', OwnKey(fn'.cascade, fn'.banner)) = fn'.result
       /\ (SingleHint(fn'.banner) /\ IsTruthy(fn'.banner.pincode)) =>
            cacheGet(locationCache',
                     "enhanced_location_" \o toString(fn'.banner.pincode))
              = fn'.result
  /\ (fn' # fn /\ fn'.op = "getEnhancedLocationData" /\ fn'.result # Null) =>
       cacheGet(locationCache', "enhanced_location_" \o toString(fn'.pincode))
         = fn'.result

C17_HighestScoringAreaSelected ==
  (Resolved /\ Len(areaBanners) > RemainingSlots) =>
    \A i \in DOMAIN areaBanners, j \in DOMAIN areaBanners :
      (areaBanners[i].id \in Ids(output) /\ areaBanners[j].id \notin Ids(output))
        => areaBanners[j].locationScore <= areaBanners[i].locationScore

\* The same for the two banner cascades, whose selection slices the sorted
\* Area bucket.
AreaBannersByScore ==
  cascade # "listings" => C17_HighestScoringAreaSelected


\* C18: in every output that has global sentinels, all of them come before
\* every non-sentinel candidate: the final shuffle reorders the non-sentinel
\* remainder only.
C18_SentinelsPinnedInFront ==
  Done => \A i \in DOMAIN output, j \in DOMAIN output :
            (IsSentinel(output[j]) /\ ~IsSentinel(output[i])) => j < i

\* The same on the path with a resolved requester location.
SentinelsPinnedWhenResolved == Resolved => C18_SentinelsPinnedInFront


\* The hints a row carries: a bottom banner has no city.
CarriesHint(row) ==
  \/ row.locationUrl # Null
  \/ IsTruthy(row.pincode)
  \/ cascade # "bottomBanners" /\ row.city # Null

\* The rows of the request that carry a hint and were not resolved.
HintedUnresolved ==
  {i \in DOMAIN bannerLocations :
     /\ ~IsSentinel(allBanners[i])
     /\ CarriesHint(allBanners[i])
     /\ bannerLocations[i] = Null}

BucketedIds ==
  Ids(areaBanners) \cup Ids(nearbyBanners) \cup Ids(fallbackBanners)
    \cup Ids(globalBanners)

\* C19 as the specification words it: with a resolved requester location, a
\* candidate that carries a location hint and whose location does not
\* resolve is in no bucket, not even Fallback, and never in the output.
C19_HintedUnresolvedExcluded ==
  Resolved => \A i \in HintedUnresolved :
                allBanners[i].id \notin BucketedIds \cup Ids(output)

\* C19, amended: that holds for the listing banners and the bottom banners.
\* A listing whose hints do not resolve is put in Fallback, and in no other
\* bucket; it appears in the output only when Area and Nearby are both
\* empty.
C19_ExcludedUnlessListing ==
  Resolved =>
    \A i \in HintedUnresolved :
      IF cascade = "listings"
      THEN /\ allBanners[i].id \in Ids(fallbackBanners)
           /\ allBanners[i].id \notin Ids(areaBanners) \cup Ids(nearbyBanners)
           /\ allBanners[i].id \in Ids(output) =>
                areaBanners = <<>> /\ nearbyBanners = <<>>
      ELSE allBanners[i].id \notin BucketedIds \cup Ids(output)

\* A banner with a hint that did not resolve is left out although a slot is
\* free and a candidate without hints is shown.
C19_Witness ==
  /\ Resolved
  /\ cascade # "listings"
  /\ HintedUnresolved # {}
  /\ output # <<>>
  /\ Len(output) < maxResults

\* A listing with a hint that did not resolve is shown.
UnresolvedListingShown ==
  /\ Resolved
  /\ cascade = "listings"
  /\ \E i \in HintedUnresolved : allBanners[i].id \in Ids(output)


\* What each hint of a row resolves to on its own, in the order of the
\* priorities: map URL, postal code, city, name of the city relation. The
\* resolver of the bottom banners reads the first two only.
HintLocations(c, cache, banner, oracle) ==
  LET url == fromLocationUrl(banner, oracle)
      pin == IF IsTruthy(banner.pincode)
             THEN getEnhancedLocationData(cache, banner.pincode,
                                          oracle.pincode).loc
             ELSE Null
      city == IF banner.city # Null
              THEN getLocationDataFromCity(cache, banner.city, oracle).loc
              ELSE Null
      relation == IF banner.city # Null /\ "name" \in DOMAIN banner.city
                  THEN getLocationDataFromCity(cache, Str(banner.city.name),
                                               oracle).loc
                  ELSE Null
  IN IF c = "bottomBanners" THEN <<url, pin>>
     ELSE <<url, pin, city, relation>>

\* The keys under which the k-th hint of a row is cached.
HintKeys(banner, k) ==
  CASE k = 1 -> {}
    [] k = 2 -> {"enhanced_location_" \o toString(banner.pincode)}
    [] k = 3 -> {"city_location_" \o cityText(banner.city)}
    [] k = 4 -> {"city_location_" \o banner.city.name}

Winner(hints) ==
  IF \A k \in DOMAIN hints : hints[k] = Null THEN 0
  ELSE CHOOSE k \in DOMAIN hints :
         hints[k] # Null /\ \A h \in 1 .. (k - 1) : hints[h] = Null

PriorityOrder ==
  ResolveStep =>
    LET banner == fn'.banner
        hints == HintLocations(fn'.cascade, locationCache, banner, fn'.oracle)
        k == Winner(hints)
        own == OwnKey(fn'.cascade, banner)
    IN IF k = 0
       THEN fn'.result = Null /\ locationCache' = locationCache
       ELSE /\ fn'.result = hints[k]
            /\ DOMAIN locationCache' \subseteq
                 DOMAIN locationCache \cup {own} \cup HintKeys(banner, k)

\* C20: a candidate's location is that of the highest-priority hint that
\* resolves, in the order map URL, postal code, city name, city relation;
\* the hints below the one that resolved are not consulted (nothing of them
\* enters the cache) and the result is the location of that one hint.
C20_HighestPriorityHintWins == [][PriorityOrder]_vars

\* Candidate 13 has a map URL, a postal code and a city; the reverse
\* geocoding of the URL's coordinates fails and the postal code resolves:
\* the location is that of the postal code, and the city was not consulted.
C20_Witness ==
  /\ fn.op = "resolve"
  /\ fn.banner.id = 13
  /\ fn.oracle.latlng = "error"
  /\ fn.oracle.pincode = "OK"
  /\ fn.result # Null
  /\ fn.result.coordinates = Coords(120, 0)
  /\ "enhanced_location_400001" \in DOMAIN locationCache
  /\ "city_location_Bengaluru" \notin DOMAIN locationCache


\* The lowest priority at work: the location is that of the name of the
\* city relation, the postal code having failed.
CityRelationResolved ==
  /\ fn.op = "resolve"
  /\ fn.banner.id = 14
  /\ fn.oracle.pincode = "error"
  /\ fn.result # Null
  /\ fn.result.coordinates = Coords(735, 0)


(* ==================== what a selection leaves behind ==================== *)
\* No step of a selection writes the tables.
StorageUntouched == store' = store /\ table' = table

\* C21: a selection call changes no shared state but the resolver cache:
\* the stored candidates and their fields are the same after every step of
\* every sequence of selection calls, and between two calls nothing of a
\* request is left (its pool, requester location, buckets and output are
\* gone).
C21_OnlyTheCacheIsShared ==
  [](pc = "idle" => NoRequest) /\ [][StorageUntouched]_vars

\* A request has been answered and has left a location in the cache; the
\* table is the one it read.
C21_Witness ==
  /\ pc = "idle"
  /\ NoRequest
  /\ locationCache # EmptyCache
  /\ store # <<>>


(* ============ two selections at once, sharing the cache ================= *)
\* Node runs one request until its next await; at every await of a lookup
\* another request can run. Two requests for the postal code 411001 are in
\* fn.requests, each at its own place of its loop; the cache is the one
\* Map. The providers answer a given hint the same way all along: fn.oracle
\* holds their answers, and the requester's postal code resolves.
SelectionPincode == Str("411001")

SelectionTables(t) ==
  IF t = "BottomBanner"
  THEN {RowsOf({2, 4, 6}), RowsOf({5, 6, 7})}
  ELSE {RowsOf({4, 6, 8}), RowsOf({5, 7}),
        SelectSeq(ResolveCatalog, LAMBDA row : row.id \in {13, 15})}

SelectionOracles ==
  [redirect : {"OK", "error"}, latlng : {"OK", "error"},
   pincode : {"OK", "error"}, city : {"OK", "error"}, osm : {"OK", "error"}]

\* The answers of the providers for a row: the requester's postal code
\* resolves for a row as it does for the requester.
AnswersFor(oracle, banner) ==
  IF banner.pincode \in {Num(411001), SelectionPincode}
  THEN [oracle EXCEPT !.pincode = "OK"] ELSE oracle

NoBuckets == Buckets(<<>>, <<>>, <<>>, <<>>)

IdleRequest ==
  [pc |-> "idle", cascade |-> "none", userLocation |-> Null, idx |-> 0,
   bannerLocations |-> <<>>, buckets |-> NoBuckets]

InitSelections ==
  /\ table \in {"Listing", "BottomBanner"}
  /\ store \in SelectionTables(table)
  /\ fn \in [op : {"selections"}, oracle : SelectionOracles,
             requests : {<<IdleRequest, IdleRequest>>}]
  /\ locationCache = EmptyCache
  /\ pc = "idle"
  /\ NoRequest

\* The body of the cascade's loop for one row.
classify(c, b, userLoc, banner, bannerLocation) ==
  CASE c = "bottomBanners" ->
         bottomBannerBuckets(b, userLoc, banner, bannerLocation)
    [] c = "banners" -> bannerBuckets(b, userLoc, banner, bannerLocation)
    [] c = "listings" -> listingBuckets(b, userLoc, banner, bannerLocation)

\* Request r starts: the pool is fetched and the requester's postal code
\* looked up.
StartSelection(r, c) ==
  /\ fn.requests[r].pc = "idle"
  /\ TableOf(c) = table
  /\ LET res == getEnhancedLocationData(locationCache, SelectionPincode, "OK")
     IN /\ locationCache' = res.cache
        /\ fn' = [fn EXCEPT !.requests[r] =
                    [IdleRequest EXCEPT !.pc = "classify", !.cascade = c,
                                        !.userLocation = res.loc, !.idx = 1]]
  /\ UNCHANGED <<table, store, pc, locals>>

\* One turn of the loop of request r.
ClassifyInSelection(r) ==
  LET req == fn.requests[r]
  IN /\ req.pc = "classify"
     /\ req.idx <= Len(store)
     /\ LET banner == store[req.idx]
            res == ResolverOf(req.cascade, locationCache, banner,
                              AnswersFor(fn.oracle, banner))
        IN /\ locationCache' = res.cache
           /\ fn' = [fn EXCEPT !.requests[r] =
                       [req EXCEPT
                          !.idx = @ + 1,
                          !.bannerLocations = Append(@, res.loc),
                          !.buckets = classify(req.cascade, @,
                                               req.userLocation, banner,
                                               res.loc)]]
     /\ UNCHANGED <<table, store, pc, locals>>

\* The loop of request r is over.
FinishSelection(r) ==
  /\ fn.requests[r].pc = "classify"
  /\ fn.requests[r].idx > Len(store)
  /\ fn' = [fn EXCEPT !.requests[r].pc = "done"]
  /\ UNCHANGED <<table, store, locationCache, pc, locals>>

\* The periodic clear while requests are under way.
ClearDuringSelections ==
  /\ locationCache # EmptyCache
  /\ locationCache' = EmptyCache
  /\ UNCHANGED <<fn, table, store, pc, locals>>

NextSelections ==
  \/ \E r \in 1 .. 2, c \in Cascades : StartSelection(r, c)
  \/ \E r \in 1 .. 2 : ClassifyInSelection(r)
  \/ \E r \in 1 .. 2 : FinishSelection(r)
  \/ ClearDuringSelections

SpecSelections == InitSelections /\ [][NextSelections]_vars

\* The location of a row resolved on its own, with an empty cache.
AloneLocation(c, banner) ==
  ResolverOf(c, EmptyCache, banner, AnswersFor(fn.oracle, banner)).loc

\* The buckets of the first n rows classified on their own, in the order
\* of the pool.
RECURSIVE AloneBuckets(_, _, _)
AloneBuckets(c, userLoc, n) ==
  IF n = 0 THEN NoBuckets
  ELSE classify(c, AloneBuckets(c, userLoc, n - 1), userLoc, store[n],
                AloneLocation(c, store[n]))

\* C22: the bucket of each candidate does not depend on the order in which
\* the resolutions of two requests sharing the cache are performed, nor on
\* a clear of the cache between them: with providers that answer a hint the
\* same way all along, every request has, at every turn of its loop, the
\* locations and the buckets it has when its rows are resolved on their
\* own.
C22_BucketsIndependentOfInterleaving ==
  \A r \in 1 .. 2 :
    LET req == fn.requests[r]
    IN req.pc # "idle" =>
         /\ req.userLocation
              = getEnhancedLocationData(EmptyCache, SelectionPincode, "OK").loc
         /\ \A i \in DOMAIN req.bannerLocations :
              req.bannerLocations[i] = AloneLocation(req.cascade, store[i])
         /\ req.buckets
              = AloneBuckets(req.cascade, req.userLocation, req.idx - 1)

\* Request 2 has run from its start to its end while request 1 was in its
\* loop, and both have found candidates with a location.
C22_Witness ==
  /\ fn.requests[1].pc = "classify"
  /\ fn.requests[1].idx = 2
  /\ fn.requests[2].pc = "done"
  /\ fn.requests[1].bannerLocations[1] # Null
  /\ \E i \in DOMAIN store : fn.requests[2].bannerLocations[i] # Null
  /\ fn.requests[2].buckets.area # <<>>


(* ================== how long a postal code stays cached ================= *)
\* The hours of the study, counted from the start of the server.
MaxHours == 13
\* setInterval(..., 6 * 60 * 60 * 1000) of locationCache.clear().
ClearIntervalHours == 6
\* stdTTL: 86400 of pincodeCache, which getEnhancedLocationData does not use.
PincodeTtlHours == 24

StudyPincodes == {Str("411001"), Str("400001")}
NeverCached == 0 - 1

\* fn.now is the hour, fn.cachedAt the hour at which the last successful
\* lookup of each postal code was stored, fn.called whether the last lookup
\* called the provider.
InitTtl ==
  /\ fn = [op |-> "clock", now |-> 0,
           cachedAt |-> [p \in StudyPincodes |-> NeverCached],
           pincode |-> Null, called |-> FALSE, result |-> Null]
  /\ table \in {"Listing", "BottomBanner"}
  /\ store = <<>>
  /\ locationCache = EmptyCache
  /\ pc = "idle"
  /\ NoRequest

\* An hour passes; the timer of the clear fires every sixth hour.
HourPasses ==
  /\ fn.now < MaxHours
  /\ fn' = [fn EXCEPT !.op = "clock", !.now = @ + 1]
  /\ locationCache' = IF (fn.now + 1) % ClearIntervalHours = 0
                      THEN EmptyCache ELSE locationCache
  /\ UNCHANGED <<table, store, pc, locals>>

\* A lookup of a postal code, by a request or for a row.
LookupPincode(pincode, outcome) ==
  LET key == "enhanced_location_" \o toString(pincode)
      r == getEnhancedLocationData(locationCache, pincode, outcome)
  IN /\ locationCache' = r.cache
     /\ fn' = [fn EXCEPT
                 !.op = "lookup", !.pincode = pincode,
                 !.called = key \notin DOMAIN locationCache,
                 !.result = r.loc,
                 !.cachedAt[pincode] =
                    IF key \notin DOMAIN locationCache /\ r.loc # Null
                    THEN fn.now ELSE @]
     /\ UNCHANGED <<table, store, pc, locals>>

NextTtl ==
  \/ HourPasses
  \/ \E pincode \in StudyPincodes, outcome \in GeocodeOutcomes :
       LookupPincode(pincode, outcome)

SpecTtl == InitTtl /\ [][NextTtl]_vars

\* C23: a successful postal-code lookup stays cached for 24 hours: less
\* than 24 hours after a postal code was cached its location is in the
\* cache, so that a repeat lookup is served without a call of the provider,
\* whatever the 6-hourly clear does.
C23_PincodeCachedFor24Hours ==
  \A p \in StudyPincodes :
    (fn.cachedAt[p] # NeverCached /\ fn.now - fn.cachedAt[p] < PincodeTtlHours)
      => "enhanced_location_" \o toString(p) \in DOMAIN locationCache

\* What the code does: a cached postal code stays until the next firing of
\* the 6-hourly clear, and is looked up at the provider after it.
PincodeCachedUntilNextClear ==
  \A p \in StudyPincodes :
    fn.cachedAt[p] # NeverCached =>
      (("enhanced_location_" \o toString(p) \in DOMAIN locationCache)
         <=> (fn.now \div ClearIntervalHours
                = fn.cachedAt[p] \div ClearIntervalHours))

\* A postal code cached at hour 5 is looked up at the provider at hour 6.
RepeatLookupCallsProvider ==
  /\ fn.op = "lookup"
  /\ fn.called
  /\ fn.result = Null
  /\ fn.now = 6
  /\ \E p \in StudyPincodes : fn.pincode = p /\ fn.cachedAt[p] = 5


(* ================= calls that are awaited, one at a time ================ *)
\* A bottom-banner request whose external calls are steps of their own:
\* the request issues a call and awaits it; the provider answers, or does
\* not. fn.inflight is the call awaited ("none" between calls), fn.answers
\* the outcomes of the calls made so far for the lookup in progress.
CallKinds == {"redirect", "latlng", "pincode"}

NoCalls == [op |-> "calls", inflight |-> "none", answers |-> <<>>]

TimeoutTables ==
  SelectionTables("BottomBanner")
    \cup {SelectSeq(ResolveCatalog, LAMBDA row : row.id \in {13, 15})}

InitTimeout ==
  /\ fn = NoCalls
  /\ table = "BottomBanner"
  /\ store \in TimeoutTables
  /\ locationCache = EmptyCache
  /\ pc = "idle"
  /\ NoRequest

\* The outcomes of the calls made so far, as the resolvers take them.
OracleOf(answers) ==
  [k \in {"redirect", "latlng", "pincode", "city", "osm"} |->
     IF k \in DOMAIN answers THEN answers[k] ELSE "OK"]

\* The call the lookup in progress makes next, "none" when it has all the
\* answers it needs: for the requester the postal code, for a row the
\* redirect of a short link, the reverse geocoding of the link's
\* coordinates, and the postal code when the link gave no location.
NextCallKind ==
  LET answers == fn.answers
      oracle == OracleOf(answers)
  IN IF pc = "user"
     THEN IF "enhanced_location_" \o toString(userPincode)
               \notin DOMAIN locationCache
             /\ "pincode" \notin DOMAIN answers
          THEN "pincode" ELSE "none"
     ELSE IF pc # "classify" \/ idx > Len(allBanners) THEN "none"
     ELSE LET banner == allBanners[idx]
              url == banner.locationUrl
          IN IF IsGlobal(banner)
                \/ OwnKey(cascade, banner) \in DOMAIN locationCache
             THEN "none"
             ELSE IF url # Null /\ url.short /\ "redirect" \notin DOMAIN answers
             THEN "redirect"
             ELSE IF url # Null /\ "latlng" \notin DOMAIN answers
                     /\ extractCoordsFromUrl(url, oracle.redirect) # Null
             THEN "latlng"
             ELSE IF fromLocationUrl(banner, oracle) = Null
                     /\ IsTruthy(banner.pincode)
                     /\ "enhanced_location_" \o toString(banner.pincode)
                          \notin DOMAIN locationCache
                     /\ "pincode" \notin DOMAIN answers
             THEN "pincode"
             ELSE "none"

\* getFilteredBottomBanners is called: the pool is fetched.
BeginRequest ==
  /\ pc = "idle"
  /\ pc' = "user"
  /\ cascade' = "bottomBanners"
  /\ userPincode' = SelectionPincode
  /\ maxResults' = MaxResultsBound
  /\ allBanners' = store
  /\ fn' = NoCalls
  /\ UNCHANGED <<table, store, locationCache, userLocation, idx,
                 bannerLocations, buckets, output>>

\* await axios.get(...) or await axios.head(...)
IssueCall ==
  /\ fn.inflight = "none"
  /\ NextCallKind # "none"
  /\ fn' = [fn EXCEPT !.inflight = NextCallKind]
  /\ UNCHANGED <<table, store, locationCache, pc, locals>>

Answered(outcome) ==
  fn' = [fn EXCEPT !.inflight = "none",
                   !.answers = [k \in DOMAIN fn.answers \cup {fn.inflight} |->
                                  IF k = fn.inflight THEN outcome
                                  ELSE fn.answers[k]]]

\* The provider answers the call awaited, or the call fails.
ProviderAnswers(outcome) ==
  /\ fn.inflight # "none"
  /\ fn.inflight = "redirect" => outcome \in RedirectOutcomes
  /\ Answered(outcome)
  /\ UNCHANGED <<table, store, locationCache, pc, locals>>

\* timeout: 5000 of the axios.head of resolveShortUrl, the one call that
\* has a timeout: the call is rejected.
HeadTimesOut ==
  /\ fn.inflight = "redirect"
  /\ Answered("error")
  /\ UNCHANGED <<table, store, locationCache, pc, locals>>

\* The requester's postal code has been looked up.
UserLookedUp ==
  /\ pc = "user"
  /\ fn.inflight = "none"
  /\ NextCallKind = "none"
  /\ LET r == getEnhancedLocationData(locationCache, userPincode,
                                      OracleOf(fn.answers).pincode)
     IN /\ locationCache' = r.cache
        /\ userLocation' = r.loc
        /\ IF r.loc = Null
           THEN /\ pc' = "done"
                /\ idx' = 0
                /\ \E rnd \in RandomChoices(Len(allBanners)) :
                     output' = randomSample(cascade, allBanners, maxResults, rnd)
           ELSE pc' = "classify" /\ idx' = 1 /\ output' = <<>>
  /\ fn' = NoCalls
  /\ UNCHANGED <<table, store, cascade, userPincode, maxResults, allBanners,
                 bannerLocations, buckets>>

\* The row's resolver has returned and the row is classified.
RowLookedUp ==
  /\ pc = "classify"
  /\ idx <= Len(allBanners)
  /\ fn.inflight = "none"
  /\ NextCallKind = "none"
  /\ \E r \in {getBottomBannerLocationData(locationCache, allBanners[idx],
                                            OracleOf(fn.answers))} :
       /\ locationCache' = r.cache
       /\ bannerLocations' = Append(bannerLocations, r.loc)
       /\ SetBuckets(bottomBannerBuckets(CurrentBuckets, userLocation,
                                         allBanners[idx], r.loc))
  /\ idx' = idx + 1
  /\ fn' = NoCalls
  /\ UNCHANGED <<table, store, pc, cascade, userPincode, maxResults,
                 allBanners, userLocation, output>>

\* The loop is over: the selection is made and returned.
RowsSelected ==
  /\ SelectBottomBanners
  /\ fn.inflight = "none"

\* The response is sent.
OutputReturned ==
  /\ Respond
  /\ fn.op = "calls"

NextTimeout ==
  \/ BeginRequest
  \/ IssueCall
  \/ \E outcome \in GeocodeOutcomes : ProviderAnswers(outcome)
  \/ HeadTimesOut
  \/ UserLookedUp
  \/ RowLookedUp
  \/ RowsSelected
  \/ OutputReturned

SpecTimeout == InitTimeout /\ [][NextTimeout]_vars

\* The event loop runs every continuation that is ready, and the timer of
\* axios.head fires; nothing makes a provider answer.
LiveSpecTimeout ==
  /\ SpecTimeout
  /\ WF_vars(IssueCall)
  /\ WF_vars(HeadTimesOut)
  /\ WF_vars(UserLookedUp)
  /\ WF_vars(RowLookedUp)
  /\ WF_vars(RowsSelected)

\* The same with providers that answer every call.
LiveSpecAnswered ==
  /\ LiveSpecTimeout
  /\ WF_vars(\E outcome \in GeocodeOutcomes : ProviderAnswers(outcome))

InSelection == pc \in {"user", "classify"}

\* C24: every selection call eventually returns, whatever the providers
\* do: every attempt is bounded by a timeout of its own and counts as
\* failed when it expires, so a call that is never answered for one
\* candidate does not stall the classification of the others.
C24_EverySelectionReturns == [](InSelection => <>(pc = "done"))

\* What the code gives: the redirect of a short link is bounded by its
\* timeout, and no call is made twice for a lookup.
RedirectIsBounded == [](fn.inflight = "redirect" => <>(fn.inflight # "redirect"))
NeverRetried ==
  [][fn'.inflight # "none" /\ fn.inflight = "none"
       => fn'.inflight \notin DOMAIN fn.answers]_vars

\* A geocoding call is awaited for the second row of the pool.
GeocodingAwaitedForARow ==
  /\ pc = "classify"
  /\ idx = 2
  /\ fn.inflight \in {"latlng", "pincode"}


(* ============================ the Nearby bucket ========================= *)
\* The place in the pool of the candidate with an id.
IndexOf(id) == CHOOSE i \in DOMAIN allBanners : allBanners[i].id = id

Classifying == pc \in {"classify", "done"} /\ userLocation # Null

\* C25 as the specification words it: a candidate is in the Nearby bucket
\* only if it is not in-area, is in the requester's state (ignoring case),
\* both sides have coordinates and the distance is at most 55 km; so every
\* candidate output through the Nearby tier is in the requester's state and
\* at most 55 km away.
C25_NearbyIsSameStateWithinRadius ==
  Classifying =>
    \A k \in DOMAIN nearbyBanners :
      LET loc == bannerLocations[IndexOf(nearbyBanners[k].id)]
      IN /\ ~InArea(IndexOf(nearbyBanners[k].id))
         /\ BothHaveCoordinates(userLocation, loc)
         /\ SameState(userLocation, loc)
         /\ scoredDistance(userLocation, loc) <= NearbyRadiusKm

\* C25, amended: a candidate in the Nearby bucket is resolved, not in-area,
\* has coordinates as the requester has, and carries their distance. For
\* the banners it is, besides, in the requester's state and at most 55 km
\* away. For the listings there is neither condition: every resolved
\* listing outside the area with coordinates on both sides is in Nearby,
\* whatever its state and distance, and can be output through that tier.
C25_NearbyByKindOfCandidate ==
  Classifying =>
    /\ \A k \in DOMAIN nearbyBanners :
         LET i == IndexOf(nearbyBanners[k].id)
             loc == bannerLocations[i]
         IN /\ loc # Null
            /\ ~InArea(i)
            /\ BothHaveCoordinates(userLocation, loc)
            /\ nearbyBanners[k].distance = scoredDistance(userLocation, loc)
            /\ cascade # "listings" =>
                 /\ SameState(userLocation, loc)
                 /\ scoredDistance(userLocation, loc) <= NearbyRadiusKm
    /\ cascade = "listings" =>
         \A i \in DOMAIN bannerLocations :
           (/\ bannerLocations[i] # Null
            /\ ~InArea(i)
            /\ BothHaveCoordinates(userLocation, bannerLocations[i]))
             => allBanners[i].id \in Ids(nearbyBanners)

\* A listing more than 55 km away is output through the Nearby tier.
C25_Witness ==
  /\ Resolved
  /\ cascade = "listings"
  /\ areaBanners = <<>>
  /\ \E k \in DOMAIN nearbyBanners :
       /\ nearbyBanners[k].distance > NearbyRadiusKm
       /\ nearbyBanners[k].id \in Ids(output)

\* The same with a listing of another state.
ListingOfAnotherStateOutput ==
  /\ Resolved
  /\ cascade = "listings"
  /\ \E k \in DOMAIN nearbyBanners :
       /\ ~SameState(userLocation,
                     bannerLocations[IndexOf(nearbyBanners[k].id)])
       /\ nearbyBanners[k].id \in Ids(output)


(* ============== selections while the candidates are edited ============== *)
\* The tables of this study, and the hints an edit sets: none, the postal
\* code of Pune, the postal code of Mumbai (rows 1, 4 and 6 of the catalog).
EditTables == {<<Catalog[4]>>, RowsOf({4, 6})}
HintsOffered == {1, 4, 6}

InitEdits ==
  /\ fn = NoCall
  /\ table \in {"Listing", "BottomBanner"}
  /\ store \in EditTables
  /\ locationCache = EmptyCache
  /\ pc = "idle"
  /\ NoRequest

\* Variant: an edit that removes the cached locations of the row.
EditHints_invalidating(i, j) ==
  /\ pc = "idle"
  /\ store' = [store EXCEPT ![i] = [Catalog[j] EXCEPT !.id = store[i].id]]
  /\ store' # store
  /\ locationCache' =
       [k \in DOMAIN locationCache
              \ {OwnKey(c, store[i]) : c \in Cascades} |-> locationCache[k]]
  /\ UNCHANGED <<fn, table, pc, locals>>

\* script.js, PUT /admin/listing/:id and PUT /bottom-banners/:id: the hints
\* of a row are replaced; the cache of the serving process is not touched.
EditHints(i, j) ==
  /\ pc = "idle"
  /\ store' = [store EXCEPT ![i] = [Catalog[j] EXCEPT !.id = store[i].id]]
  /\ store' # store
  /\ UNCHANGED <<fn, table, locationCache, pc, locals>>

NextEdits ==
  \/ \E c \in Cascades, max \in 1 .. MaxResultsBound :
       RequestWithPincode(c, SelectionPincode, max)
  \/ ClassifyBottomBanner
  \/ ClassifyBanner
  \/ ClassifyListing
  \/ SelectBottomBanners
  \/ SelectBanners
  \/ SelectListings
  \/ Respond
  \/ ClearLocationCache
  \/ \E i \in DOMAIN store, j \in HintsOffered : EditHints(i, j)

SpecEdits == InitEdits /\ [][NextEdits]_vars

\* The turn of the loop for the row at idx.
LookupStep ==
  /\ pc = "classify"
  /\ idx <= Len(allBanners)
  /\ Len(bannerLocations') = Len(bannerLocations) + 1

\* The rows of the request that carry no hint.
Unrestricted ==
  {i \in DOMAIN bannerLocations :
     ~IsSentinel(allBanners[i]) /\ ~HasHint(allBanners[i])}

UnrestrictedLookup ==
  (LookupStep /\ ~IsSentinel(allBanners[idx]) /\ ~HasHint(allBanners[idx])) =>
    bannerLocations'[idx]
      = cacheGet(locationCache, OwnKey(cascade, allBanners[idx]))

UnrestrictedWithoutLocation ==
  Classifying =>
    \A i \in Unrestricted :
      bannerLocations[i] = Null =>
        /\ allBanners[i].id \in Ids(fallbackBanners)
        /\ allBanners[i].id \notin Ids(areaBanners) \cup Ids(nearbyBanners)

UnrestrictedInArea ==
  /\ Resolved
  /\ \E i \in Unrestricted :
       /\ allBanners[i].id \in Ids(areaBanners)
       /\ allBanners[i].id \in Ids(output)


\* The row at idx has the location cached for it, whatever its hints are
\* now; without a cached location it is resolved from the hints it has.
CachedLocationUsed ==
  (LookupStep /\ ~IsSentinel(allBanners[idx])) =>
    LET row == allBanners[idx]
        own == OwnKey(cascade, row)
    IN IF own \in DOMAIN locationCache
       THEN /\ bannerLocations'[idx] = locationCache[own]
            /\ locationCache' = locationCache
       ELSE \E oracle \in OraclesFor(row) :
              LET hints == HintLocations(cascade, locationCache, row, oracle)
              IN bannerLocations'[idx]
                   \in {Null} \cup {hints[k] : k \in DOMAIN hints}

\* An entry of the cache stays as it is until the clear, which removes all
\* entries; an edit of a candidate leaves the cache alone.
EvictedOnlyByClear ==
  /\ \A k \in DOMAIN locationCache :
       IF k \in DOMAIN locationCache'
       THEN locationCache'[k] = locationCache[k]
       ELSE locationCache' = EmptyCache /\ store' = store /\ pc' = pc
  /\ store' # store => locationCache' = locationCache

ResolvedFromCurrentHints ==
  /\ Resolved
  /\ \E i \in DOMAIN bannerLocations :
       /\ allBanners[i].id = 4
       /\ allBanners[i].pincode = Num(400001)
       /\ bannerLocations[i] # Null
       /\ bannerLocations[i].coordinates = Coords(120, 0)


\* The test that guards the Nearby bucket of the banners.
NearbyTest(userLoc, bannerLocation) ==
  /\ BothHaveCoordinates(userLoc, bannerLocation)
  /\ SameState(userLoc, bannerLocation)
  /\ scoredDistance(userLoc, bannerLocation) <= NearbyRadiusKm

OnlyLocationsCached ==
  \A k \in DOMAIN locationCache :
    locationCache[k] # Null /\ locationCache[k].coordinates # Null

\* A lookup that gives nothing leaves the cache as it was, and the same
\* lookup made again with providers that answer gives a location.
FailureNotRemembered ==
  /\ (fn' # fn /\ fn'.op = "resolve" /\ fn'.result = Null) =>
       /\ locationCache' = locationCache
       /\ \E oracle \in ResolveOraclesFor(fn'.banner) :
            ResolverOf(fn'.cascade, locationCache', fn'.banner, oracle).loc
              # Null
  /\ (fn' # fn /\ fn'.op = "getEnhancedLocationData" /\ fn'.result = Null) =>
       /\ locationCache' = locationCache
       /\ getEnhancedLocationData(locationCache', fn'.pincode, "OK").loc # Null

\* C29: a failed resolution is never cached: after every sequence of
\* lookups the cache holds resolved locations only, so a hint whose
\* resolution failed is looked up at the provider again at the next request
\* and can succeed then.
C29_FailuresAreNotCached ==
  []OnlyLocationsCached /\ [][FailureNotRemembered]_vars

\* The resolver of candidate 15 has returned nothing, the provider being
\* down, while the cache holds what other lookups found.
C29_Witness ==
  /\ fn.op = "resolve"
  /\ fn.banner.id = 15
  /\ fn.result = Null
  /\ locationCache # EmptyCache
  /\ "enhanced_location_400001" \notin DOMAIN locationCache


(* ===================== the shuffle, as a function ======================= *)
\* Arrays of up to MaxArrayLen elements, equal elements included, and the
\* counts a caller can pass: parseInt(limit) || 6 is any integer but 0
\* (index.js 1184), and the cascades pass 0 never.
ShuffleElements == {"a", "b", "c"}
ShuffleArrays == UNION {[1 .. n -> ShuffleElements] : n \in 0 .. MaxArrayLen}
ShuffleCounts == (0 - 2) .. (MaxArrayLen + 1)

\* The argument after the call: the loop assigns to the cells of the copy
\* [...array] only.
argumentAfter(array) == array

InitShuffle ==
  /\ fn \in {[op |-> "array", array |-> a, count |-> 0, rnd |-> <<>>,
              after |-> a, result |-> <<>>] : a \in ShuffleArrays}
  /\ table = "Listing"
  /\ store = <<>>
  /\ locationCache = EmptyCache
  /\ pc = "idle"
  /\ NoRequest

CallShuffleArray ==
  /\ fn.op = "array"
  /\ \E rnd \in RandomChoices(Len(fn.array)) :
       fn' = [fn EXCEPT !.op = "shuffleArray",
                        !.rnd = rnd,
                        !.after = argumentAfter(fn.array),
                        !.result = shuffleArray(fn.array, rnd)]
  /\ UNCHANGED <<table, store, locationCache, pc, locals>>

CallGetRandomListings ==
  /\ fn.op = "array"
  /\ \E count \in ShuffleCounts, rnd \in RandomChoices(Len(fn.array)) :
       fn' = [fn EXCEPT !.op = "getRandomListings",
                        !.count = count,
                        !.rnd = rnd,
                        !.after = argumentAfter(fn.array),
                        !.result = getRandomListings(fn.array, count, rnd)]
  /\ UNCHANGED <<table, store, locationCache, pc, locals>>

NextShuffle == CallShuffleArray \/ CallGetRandomListings

SpecShuffle == InitShuffle /\ [][NextShuffle]_vars

\* How often x occurs in an array.
CountIn(array, x) == Cardinality({k \in 1 .. Len(array) : array[k] = x})

IsPermutationOf(result, array) ==
  /\ Len(result) = Len(array)
  /\ \A x \in ShuffleElements : CountIn(result, x) = CountIn(array, x)

\* The elements of result are elements at distinct positions of array.
DistinctElementsOf(result, array) ==
  \A x \in ShuffleElements : CountIn(result, x) <= CountIn(array, x)

ShuffleIsPermutation ==
  fn.op = "shuffleArray" =>
    /\ IsPermutationOf(fn.result, fn.array)
    /\ fn.after = fn.array

\* C30 as stated: for every input array and every sequence of random
\* choices shuffleArray returns a permutation of its input and leaves the
\* input unchanged, and getRandomListings returns min(count, length)
\* distinct elements of its input.
C30_PermutationAndMinCountSample ==
  /\ ShuffleIsPermutation
  /\ fn.op = "getRandomListings" =>
       /\ Len(fn.result) = Min(fn.count, Len(fn.array))
       /\ DistinctElementsOf(fn.result, fn.array)
       /\ fn.after = fn.array

\* C30, amended: shuffleArray returns a permutation of its input and leaves
\* the input unchanged; getRandomListings returns distinct elements of its
\* input and leaves it unchanged, min(count, length) of them for a count of
\* 0 or more, and max(length + count, 0) of them for a negative count.
C30_PermutationAndSample ==
  /\ ShuffleIsPermutation
  /\ fn.op = "getRandomListings" =>
       /\ Len(fn.result) =
            IF fn.count >= 0 THEN Min(fn.count, Len(fn.array))
            ELSE Max(Len(fn.array) + fn.count, 0)
       /\ DistinctElementsOf(fn.result, fn.array)
       /\ fn.after = fn.array

\* Two of four elements, two of them equal, have been drawn, and they are
\* not the first two of the array.
C30_Witness ==
  /\ fn.op = "getRandomListings"
  /\ fn.array = <<"a", "b", "a", "c">>
  /\ fn.count = 2
  /\ fn.result = <<"c", "a">>

\* An array with equal elements has been shuffled into another order.
ShuffledIntoAnotherOrder ==
  /\ fn.op = "shuffleArray"
  /\ fn.array = <<"a", "b", "a", "c">>
  /\ fn.result # fn.array

\* All but the last drawn element are returned for a count of -1.
NegativeCountReturnsAllButOne ==
  /\ fn.op = "getRandomListings"
  /\ fn.count = 0 - 1
  /\ Len(fn.array) = 3
  /\ Len(fn.result) = 2

=============================================================================
